---- MODULE Spec2Model ----
(***************************************************************************)
(* The one-time session-code handoff of auth-callback:                     *)
(*   api/create-secure-session  (second half of verify-email-phase1.js)    *)
(*   api/retrieve-session.js                                               *)
(* Both handlers share global.sessionCodeStore, a Map from a 64-character  *)
(* hex code to a token bundle with an absolute expiry.  Neither handler    *)
(* contains an await, so each runs to completion on the Node event loop;   *)
(* requests of several clients may be in flight at once and are handled    *)
(* in any order.                                                           *)
(***************************************************************************)
EXTENDS Integers, Sequences, FiniteSets, TLC

(***************************************************************************)
(* Program constants                                                       *)
(***************************************************************************)
\* 5 * 60 * 1000 ms, create-secure-session
TTL == 300000
\* session_code.length !== 64
CodeLength == 64
\* crypto.randomBytes(32)
RandomByteCount == 32
\* access_token.length < 50
MinAccessLen == 50
\* refresh_token.length < 8
MinRefreshLen == 8

(***************************************************************************)
(* Bounds of the model                                                     *)
(***************************************************************************)
\* the clock reads 0, and p * TTL and p * TTL + 1 for p in 1..MaxPeriods:
\* the last instant at which an entry stored at (p - 1) * TTL is valid and
\* the first at which it is expired
MaxPeriods == 1

Times == {0} \cup {p * TTL + k : p \in 1..MaxPeriods, k \in {0, 1}}
Clients == {"c1", "c2"}

\* the verify handlers and the webhook receive MaxArrivals requests
MaxArrivals == 2

\* for the rate limiter the clock reads 0, 60000 (the resetTime of a window
\* opened at 0, still inside it) and 60000 + k for k in 1..MaxLate (past it)
MaxLate == 1

\* the number of requests the single-use link handlers receive
MaxVisits == 2

\* the number of webhook deliveries that reach createProfileAfterVerification
MaxDeliveries == 3

(***************************************************************************)
(* JavaScript values that travel in a JSON body: s is the text of a        *)
(* string, n the value of a number or the element count of an array.       *)
(***************************************************************************)
Undefined == [t |-> "undefined", s |-> "", n |-> 0]
Str(chars) == [t |-> "string", s |-> chars, n |-> 0]
Num(k) == [t |-> "number", s |-> "", n |-> k]
Arr(k) == [t |-> "object", s |-> "", n |-> k]

\* the string of k characters ch
RECURSIVE Rep(_, _)
Rep(ch, k) == IF k = 0 THEN "" ELSE ch \o Rep(ch, k - 1)

\* ToBoolean: undefined, "" and 0 are falsy
Truthy(v) ==
  CASE v.t = "undefined" -> FALSE
    [] v.t = "string" -> Len(v.s) > 0
    [] v.t = "number" -> v.n # 0
    [] OTHER -> TRUE

TypeOf(v) == v.t

\* v.length: a number for strings and arrays, undefined otherwise
LengthOf(v) ==
  CASE v.t = "string" -> Num(Len(v.s))
    [] v.t = "object" -> Num(v.n)
    [] OTHER -> Undefined

(***************************************************************************)
(* Code generator: crypto.randomBytes(32).toString('hex')                  *)
(***************************************************************************)
HexDigits == "0123456789abcdef"

\* two digits per byte, high nibble first
HexOfByte(b) ==
  SubSeq(HexDigits, (b \div 16) + 1, (b \div 16) + 1)
    \o SubSeq(HexDigits, (b % 16) + 1, (b % 16) + 1)

RECURSIVE ToHex(_)
ToHex(bytes) ==
  IF bytes = <<>> THEN ""
  ELSE HexOfByte(Head(bytes)) \o ToHex(Tail(bytes))

\* the outcomes of crypto.randomBytes(32) the model draws from
RandomPool ==
  { [i \in 1..RandomByteCount |-> 0],
    [i \in 1..RandomByteCount |-> (i * 37 + 171) % 256] }

(***************************************************************************)
(* Requests and responses                                                  *)
(***************************************************************************)
\* req.method and the fields destructured from req.body; hasBody is FALSE
\* when req.body is null or undefined (no JSON object was sent)
Request(ep, method, hasBody, at, rt, ei, tt, ty, sc) ==
  [ep |-> ep, method |-> method, hasBody |-> hasBody,
   access_token |-> at, refresh_token |-> rt, expires_in |-> ei,
   token_type |-> tt, type |-> ty, session_code |-> sc]

NoRequest ==
  Request("none", "", FALSE, Undefined, Undefined, Undefined, Undefined,
          Undefined, Undefined)

\* the status and the object handed to res.status(..).json(..)
NoResponse ==
  [status |-> 0, error |-> "", session_code |-> Undefined, expires_at |-> 0,
   access_token |-> Undefined, refresh_token |-> Undefined,
   expires_in |-> Undefined, token_type |-> Undefined, type |-> Undefined]

ErrorResponse(status, msg) ==
  [NoResponse EXCEPT !.status = status, !.error = msg]

(***************************************************************************)
(* global.sessionCodeStore: a Map keyed by strings.  A key that is not a   *)
(* string (an array parsed from JSON) is never equal to a stored key.      *)
(***************************************************************************)
MapHas(store, key) == key.t = "string" /\ key.s \in DOMAIN store

MapSet(store, chars, entry) ==
  [c \in DOMAIN store \cup {chars} |-> IF c = chars THEN entry ELSE store[c]]

\* mutant: delete is called with a key that is not in the map
MapDelete_Noop(store, chars) == store

MapDelete(store, chars) ==
  [c \in DOMAIN store \ {chars} |-> store[c]]

\* mutant: the expiry test one millisecond late
IsExpired_OffByOne(entry, t) ==
  entry.expires_at # 0 /\ entry.expires_at + 1 < t

\* tokens.expires_at && tokens.expires_at < now
IsExpired(entry, t) == entry.expires_at # 0 /\ entry.expires_at < t

(***************************************************************************)
(* create-secure-session                                                   *)
(***************************************************************************)
\* mutant: the sweep is not run
cleanupExpiredCodes_Skip(store, t) == store

\* mutant: the sweep spares entries expired for less than a TTL
cleanupExpiredCodes_Lenient(store, t) ==
  [c \in {k \in DOMAIN store : ~IsExpired(store[k], t - TTL)} |-> store[c]]

\* mutant: the sweep also removes entries in the last instant of their
\* validity
cleanupExpiredCodes_Eager(store, t) ==
  [c \in {k \in DOMAIN store : store[k].expires_at > t} |-> store[c]]

cleanupExpiredCodes(store, t) ==
  [c \in {k \in DOMAIN store : ~IsExpired(store[k], t)} |-> store[c]]

\* the validation of the body, in the order of the source
CreateValidation(r) ==
  IF ~Truthy(r.access_token) \/ ~Truthy(r.refresh_token)
    THEN "Missing required tokens"
  ELSE IF TypeOf(r.access_token) # "string"
          \/ Len(r.access_token.s) < MinAccessLen
    THEN "Invalid access token format"
  ELSE IF TypeOf(r.refresh_token) # "string"
          \/ Len(r.refresh_token.s) < MinRefreshLen
    THEN "Invalid refresh token format"
  ELSE "ok"

CreateStatus(r) ==
  IF r.method # "POST" THEN 405
  ELSE IF ~r.hasBody THEN 500
  ELSE IF CreateValidation(r) # "ok" THEN 400
  ELSE 200

\* mutant: the TTL in seconds instead of milliseconds
ExpiresAt_Seconds(t) == t + 5 * 60

\* Date.now() + (5 * 60 * 1000)
ExpiresAt(t) == t + TTL

\* mutant: the verification type is not stored
CreateEntry_NoType(r, t) ==
  [access_token |-> r.access_token, refresh_token |-> r.refresh_token,
   expires_in |-> r.expires_in, token_type |-> r.token_type,
   type |-> Undefined, expires_at |-> ExpiresAt(t)]

CreateEntry(r, t) ==
  [access_token |-> r.access_token, refresh_token |-> r.refresh_token,
   expires_in |-> r.expires_in, token_type |-> r.token_type,
   type |-> r.type, expires_at |-> ExpiresAt(t)]

\* t1 is Date.now() of the handler, t2 >= t1 the one of cleanupExpiredCodes
CreateStore(store, r, bytes, t1, t2) ==
  IF CreateStatus(r) = 200
    THEN cleanupExpiredCodes(MapSet(store, ToHex(bytes), CreateEntry(r, t1)), t2)
    ELSE store

CreateResponse(r, bytes, t1) ==
  CASE CreateStatus(r) = 405 -> ErrorResponse(405, "Method not allowed")
    [] CreateStatus(r) = 500 ->
         ErrorResponse(500, "Failed to create secure session code")
    [] CreateStatus(r) = 400 -> ErrorResponse(400, CreateValidation(r))
    [] OTHER ->
         [NoResponse EXCEPT !.status = 200,
                            !.session_code = Str(ToHex(bytes)),
                            !.expires_at = ExpiresAt(t1)]

(***************************************************************************)
(* retrieve-session                                                        *)
(***************************************************************************)
\* !session_code || session_code.length !== 64
BadCodeFormat(code) == ~Truthy(code) \/ LengthOf(code) # Num(CodeLength)

RetrieveStatus(store, r, t) ==
  IF r.method # "POST" THEN 405
  ELSE IF ~r.hasBody THEN 500
  ELSE IF BadCodeFormat(r.session_code) THEN 400
  ELSE IF ~MapHas(store, r.session_code) THEN 404
  ELSE IF IsExpired(store[r.session_code.s], t) THEN 410
  ELSE 200

\* mutant: the entry is kept after a successful retrieval
RetrieveStore_KeepOnSuccess(store, r, t) ==
  IF RetrieveStatus(store, r, t) = 410
    THEN MapDelete(store, r.session_code.s)
    ELSE store

\* mutant: the entry is kept when it is found expired
RetrieveStore_KeepOnExpiry(store, r, t) ==
  IF RetrieveStatus(store, r, t) = 200
    THEN MapDelete(store, r.session_code.s)
    ELSE store

\* mutant: retrieval never deletes
RetrieveStore_NeverDeletes(store, r, t) == store

RetrieveStore(store, r, t) ==
  IF RetrieveStatus(store, r, t) \in {410, 200}
    THEN MapDelete(store, r.session_code.s)
    ELSE store

RetrieveResponse(store, r, t) ==
  CASE RetrieveStatus(store, r, t) = 405 ->
         ErrorResponse(405, "Method not allowed")
    [] RetrieveStatus(store, r, t) = 500 ->
         ErrorResponse(500, "Failed to retrieve session tokens")
    [] RetrieveStatus(store, r, t) = 400 ->
         ErrorResponse(400, "Invalid session code format")
    [] RetrieveStatus(store, r, t) = 404 ->
         ErrorResponse(404, "Session code not found or expired")
    [] RetrieveStatus(store, r, t) = 410 ->
         ErrorResponse(410, "Session code expired")
    [] OTHER ->
         [NoResponse EXCEPT
            !.status = 200,
            !.access_token = store[r.session_code.s].access_token,
            !.refresh_token = store[r.session_code.s].refresh_token,
            !.expires_in = store[r.session_code.s].expires_in,
            !.token_type = store[r.session_code.s].token_type,
            !.type = store[r.session_code.s].type]

(***************************************************************************)
(* The requests the clients send                                           *)
(***************************************************************************)
Bearer == Str("bearer")
Signup == Str("signup")

\* the bundle of the end-to-end scenario, and one at the minimal lengths
\* that leaves the optional fields out
ValidCreateRequests ==
  { Request("create", "POST", TRUE, Str(Rep("a", 60)), Str(Rep("b", 20)),
            Num(3600), Bearer, Signup, Undefined),
    Request("create", "POST", TRUE, Str(Rep("x", MinAccessLen)),
            Str(Rep("r", MinRefreshLen)), Undefined, Undefined, Undefined,
            Undefined) }

BadCreateRequests ==
  { \* refresh_token absent
    Request("create", "POST", TRUE, Str(Rep("a", 60)), Undefined,
            Num(3600), Bearer, Signup, Undefined),
    \* access_token empty
    Request("create", "POST", TRUE, Str(""), Str(Rep("b", 20)),
            Num(3600), Bearer, Signup, Undefined),
    \* access_token an array of 60 elements
    Request("create", "POST", TRUE, Arr(60), Str(Rep("b", 20)),
            Num(3600), Bearer, Signup, Undefined),
    \* access_token one character short
    Request("create", "POST", TRUE, Str(Rep("a", MinAccessLen - 1)),
            Str(Rep("b", 20)), Num(3600), Bearer, Signup, Undefined),
    \* refresh_token one character short
    Request("create", "POST", TRUE, Str(Rep("a", 60)),
            Str(Rep("b", MinRefreshLen - 1)), Num(3600), Bearer, Signup,
            Undefined) }

CreateRequests ==
  ValidCreateRequests \cup BadCreateRequests \cup
  { \* wrong method
    Request("create", "GET", FALSE, Undefined, Undefined, Undefined,
            Undefined, Undefined, Undefined),
    \* POST without a JSON object
    Request("create", "POST", FALSE, Undefined, Undefined, Undefined,
            Undefined, Undefined, Undefined) }

Retrieve(method, hasBody, code) ==
  Request("retrieve", method, hasBody, Undefined, Undefined, Undefined,
          Undefined, Undefined, code)

\* the codes the generator can return, and one it never returns
WellFormedCodes ==
  {Str(ToHex(bytes)) : bytes \in RandomPool} \cup {Str(Rep("f", CodeLength))}

\* absent, a number, one character short, one character long
BadCodes ==
  { Undefined, Num(CodeLength), Str(Rep("0", CodeLength - 1)),
    Str(Rep("0", CodeLength + 1)) }

RetrieveRequests ==
  {Retrieve("POST", TRUE, code) : code \in WellFormedCodes \cup BadCodes}
  \cup { Retrieve("POST", TRUE, Arr(CodeLength)),
         Retrieve("GET", FALSE, Undefined),
         Retrieve("POST", FALSE, Undefined) }

\* c1 sends any request; c2 holds the same deep link as c1 and only
\* retrieves, with a well-formed code or a truncated one
AllRequests == CreateRequests \cup RetrieveRequests

RetryRequests ==
  {Retrieve("POST", TRUE, code) :
     code \in WellFormedCodes \cup {Str(Rep("0", CodeLength - 1))}}

RequestsOf(c) == IF c = "c1" THEN AllRequests ELSE RetryRequests

(***************************************************************************)
(* State                                                                   *)
(***************************************************************************)
VARIABLES
  sessionCodeStore,  \* global.sessionCodeStore
  now,               \* Date.now()
  pc,                \* per client: "idle", "sent" or "answered"
  req,               \* per client: the request in flight or last answered
  resp,              \* per client: the response to req, once answered
  owner,             \* history: per stored code, the time of the put that
                     \* created its entry (at) and the number of takes that
                     \* returned the entry (taken)
  swept,             \* history: codes whose entry cleanupExpiredCodes removed
                     \* and that were neither taken nor stored again since
  racing,            \* history: per client, whether its handler ran while the
                     \* other client's take of the same code was in flight
  vreq,              \* the verify or webhook request being handled
  vpc,               \* where its handler stands: "idle", the await it is
                     \* suspended at, or "done"
  calls,             \* the external calls the handler has made for this
                     \* request, each with what it returned
  vres,              \* the responses the handler has sent for this request
  rateLimitStore,    \* per handler module: its rateLimitStore Map
  arrivals,          \* the number of verify and webhook requests so far
  admissions,        \* how many requests checkRateLimit admitted in the
                     \* last windowMs milliseconds, by handler, client IP
                     \* and time
  usedTokens,        \* the token hashes mark_verification_token_used stored
  link,              \* per client: the request a single-use link handler is
                     \* serving and the await it is suspended at
  served,            \* history: the pages the link handlers sent, in order
  profiles,          \* the ids of the rows of the table users
  delivery,          \* per webhook delivery in flight: the user it is about
                     \* and the await createProfileAfterVerification is
                     \* suspended at
  inserts,           \* history: per finished call of
                     \* createProfileAfterVerification, whether it issued the
                     \* insert and whether the user had a row when the call
                     \* ended
  retry,             \* verified.js: where the handler stands ("idle",
                     \* "query", "wait" or "done"), the attempt of
                     \* getEmailWithRetry and what the function returned
  trail,             \* history: the queries and waits of this request
  sent               \* the responses verified.js sent for this request

storeVars == <<sessionCodeStore, now, pc, req, resp, owner, swept, racing>>

verifyVars == <<vreq, vpc, calls, vres, rateLimitStore, arrivals, admissions>>

linkVars == <<usedTokens, link, served>>

provisionVars == <<profiles, delivery, inserts>>

pageVars == <<retry, trail, sent>>

vars == <<storeVars, verifyVars, linkVars, provisionVars, pageVars>>

\* a take: a POST to retrieve-session that carries a JSON object
IsTake(r) == r.ep = "retrieve" /\ r.method = "POST" /\ r.hasBody


EmptyMap == [c \in {} |-> 0]

\* no request of the single-use link handlers is in flight
NoLinkRequest ==
  [handler |-> "", token_hash |-> Undefined, access_token |-> Undefined,
   type |-> Undefined, referer |-> <<>>]

Waiting == [pc |-> "idle", r |-> NoLinkRequest]

\* the slots of concurrent webhook deliveries
Deliveries == {"d1", "d2"}

NoDelivery == [pc |-> "idle", user |-> ""]

\* getEmailWithRetry has not returned
NotReturned == [kind |-> "none", value |-> Undefined]

Init ==
  /\ sessionCodeStore = EmptyMap
  /\ now = 0
  /\ pc = [c \in Clients |-> "idle"]
  /\ req = [c \in Clients |-> NoRequest]
  /\ resp = [c \in Clients |-> NoResponse]
  /\ owner = EmptyMap
  /\ swept = {}
  /\ racing = [c \in Clients |-> FALSE]
  /\ vreq = [handler |-> "none"]
  /\ vpc = "idle"
  /\ calls = <<>>
  /\ vres = <<>>
  /\ rateLimitStore = [h \in {"new", "pkce"} |-> EmptyMap]
  /\ arrivals = 0
  /\ admissions = EmptyMap
  /\ usedTokens = {}
  /\ link = [c \in Clients |-> Waiting]
  /\ served = <<>>
  /\ profiles = {}
  /\ delivery = [d \in Deliveries |-> NoDelivery]
  /\ inserts = <<>>
  /\ retry = [pc |-> "idle", attempt |-> 1, returned |-> NotReturned]
  /\ trail = <<>>
  /\ sent = <<>>

\* a client issues a request; the server has not run its handler yet
Send(c, r) ==
  /\ pc[c] # "sent"
  /\ pc' = [pc EXCEPT ![c] = "sent"]
  /\ req' = [req EXCEPT ![c] = r]
  /\ resp' = [resp EXCEPT ![c] = NoResponse]
  /\ racing' = [x \in Clients |-> FALSE]
  /\ UNCHANGED <<sessionCodeStore, now, owner, swept>>
  /\ UNCHANGED <<verifyVars, linkVars, provisionVars, pageVars>>

\* create-secure-session handler(req, res), run to completion
HandleCreate(c) ==
  /\ pc[c] = "sent"
  /\ req[c].ep = "create"
  /\ \E bytes \in RandomPool, t2 \in {now, now + 1} \cap Times :
       LET ok == CreateStatus(req[c]) = 200
           code == ToHex(bytes)
           after == CreateStore(sessionCodeStore, req[c], bytes, now, t2)
       IN /\ sessionCodeStore' = after
          /\ resp' = [resp EXCEPT ![c] = CreateResponse(req[c], bytes, now)]
          /\ now' = IF ok THEN t2 ELSE now
          /\ owner' = [k \in DOMAIN after |->
                         IF ok /\ k = code
                           THEN [at |-> now, taken |-> 0]
                           ELSE owner[k]]
          /\ swept' = IF ok
                        THEN (swept \cup (DOMAIN sessionCodeStore \ DOMAIN after))
                               \ {code}
                        ELSE swept
  /\ pc' = [pc EXCEPT ![c] = "answered"]
  /\ UNCHANGED <<req, racing>>
  /\ UNCHANGED <<verifyVars, linkVars, provisionVars, pageVars>>

\* retrieve-session handler(req, res), run to completion
HandleRetrieve(c) ==
  /\ pc[c] = "sent"
  /\ req[c].ep = "retrieve"
  /\ LET after == RetrieveStore(sessionCodeStore, req[c], now)
     IN /\ sessionCodeStore' = after
        /\ resp' = [resp EXCEPT
                      ![c] = RetrieveResponse(sessionCodeStore, req[c], now)]
        /\ owner' = [k \in DOMAIN after |->
                       IF /\ RetrieveStatus(sessionCodeStore, req[c], now) = 200
                          /\ k = req[c].session_code.s
                         THEN [owner[k] EXCEPT !.taken = @ + 1]
                         ELSE owner[k]]
  /\ swept' = IF IsTake(req[c]) THEN swept \ {req[c].session_code.s} ELSE swept
  /\ racing' = [racing EXCEPT
                  ![c] = /\ IsTake(req[c])
                         /\ \E b \in Clients \ {c} :
                              /\ pc[b] = "sent"
                              /\ IsTake(req[b])
                              /\ req[b].session_code = req[c].session_code]
  /\ pc' = [pc EXCEPT ![c] = "answered"]
  /\ UNCHANGED <<now, req>>
  /\ UNCHANGED <<verifyVars, linkVars, provisionVars, pageVars>>

\* time passes
Tick ==
  /\ \E t \in Times : t > now /\ now' = t
  /\ UNCHANGED <<sessionCodeStore, pc, req, resp, owner, swept, racing>>
  /\ UNCHANGED <<verifyVars, linkVars, provisionVars, pageVars>>

Next ==
  \/ \E c \in Clients : \E r \in RequestsOf(c) : Send(c, r)
  \/ \E c \in Clients : HandleCreate(c)
  \/ \E c \in Clients : HandleRetrieve(c)
  \/ Tick

Spec == Init /\ [][Next]_vars

(***************************************************************************)
(* The verify handlers and the webhook.  Five files implement             *)
(* GET /verify: unnamed/part_002 ("relay"), api/verify-email-phase1.js     *)
(* ("phase1"), unnamed/part_007 ("legacy"), api/verify-email-new.js        *)
(* ("new") and the second file of unnamed/part_006 ("pkce"); the first     *)
(* file of unnamed/part_006 is the webhook.  A handler runs from one await *)
(* to the next; what the awaited call returns is chosen by the             *)
(* environment.                                                            *)
(***************************************************************************)

(***************************************************************************)
(* Strings                                                                 *)
(***************************************************************************)
Min(a, b) == IF a < b THEN a ELSE b

\* s.charAt(i - 1)
CharAt(s, i) == SubSeq(s, i, i)

\* s.substring(a, b), 0 <= a <= b
Substring(s, a, b) == SubSeq(s, Min(a, Len(s)) + 1, Min(b, Len(s)))

\* s.includes(sub)
Includes(s, sub) ==
  \E i \in 1..(Len(s) - Len(sub) + 1) : SubSeq(s, i, i + Len(sub) - 1) = sub

\* the position of ch in s, 0 when it is not there
IndexOf(s, ch) ==
  IF \E i \in 1..Len(s) : CharAt(s, i) = ch
    THEN CHOOSE i \in 1..Len(s) :
           CharAt(s, i) = ch /\ \A j \in 1..(i - 1) : CharAt(s, j) # ch
    ELSE 0

UpperCase == "ABCDEFGHIJKLMNOPQRSTUVWXYZ"
LowerCase == "abcdefghijklmnopqrstuvwxyz"

\* the two halves a string is split in to work on it character by character
Left(s) == SubSeq(s, 1, Len(s) \div 2)
Right(s) == SubSeq(s, (Len(s) \div 2) + 1, Len(s))

\* the lower-case letter of every upper-case letter
LowerOf ==
  [ch \in {CharAt(UpperCase, i) : i \in 1..Len(UpperCase)} |->
     CharAt(LowerCase, IndexOf(UpperCase, ch))]

RECURSIVE toLowerCase(_)
toLowerCase(s) ==
  IF Len(s) = 0 THEN ""
  ELSE IF Len(s) = 1 THEN (IF s \in DOMAIN LowerOf THEN LowerOf[s] ELSE s)
  ELSE toLowerCase(Left(s)) \o toLowerCase(Right(s))

\* a || b
Or(a, b) == IF Truthy(a) THEN a ELSE b

\* String(v), as URLSearchParams and template literals apply it
ToStr(v) ==
  CASE v.t = "string" -> v.s
    [] v.t = "number" -> ToString(v.n)
    [] OTHER -> "undefined"

\* v?.toString() || dflt
ToStringOr(v, dflt) ==
  IF v.t = "undefined" THEN Str(dflt) ELSE Or(Str(ToStr(v)), Str(dflt))

(***************************************************************************)
(* URLSearchParams.toString(): application/x-www-form-urlencoded           *)
(***************************************************************************)
\* the characters of code 32..95 and of code 97..126, in order
AsciiLow ==
  " !\"#$%&'()*+,-./0123456789:;<=>?@ABCDEFGHIJKLMNOPQRSTUVWXYZ[\\]^_"
AsciiHigh == "abcdefghijklmnopqrstuvwxyz{|}~"

\* the accented letters of the messages, with their code points
Accented == "áéíóúñ"
AccentedCodes == <<225, 233, 237, 243, 250, 241>>

\* the characters a string of the model is made of
Alphabet ==
  {"\t", "\n", "\f", "\r"}
  \cup {CharAt(AsciiLow, i) : i \in 1..Len(AsciiLow)}
  \cup {CharAt(AsciiHigh, i) : i \in 1..Len(AsciiHigh)}
  \cup {CharAt(Accented, i) : i \in 1..Len(Accented)}

\* the code point of every character of the alphabet
CharCode ==
  [ch \in Alphabet |->
     CASE ch = "\t" -> 9
       [] ch = "\n" -> 10
       [] ch = "\f" -> 12
       [] ch = "\r" -> 13
       [] IndexOf(AsciiLow, ch) > 0 -> IndexOf(AsciiLow, ch) + 31
       [] IndexOf(AsciiHigh, ch) > 0 -> IndexOf(AsciiHigh, ch) + 96
       [] OTHER -> AccentedCodes[IndexOf(Accented, ch)]]

\* the UTF-8 bytes of a code point below 2048
Utf8(cp) ==
  IF cp < 128 THEN <<cp>>
  ELSE <<192 + (cp \div 64), 128 + (cp % 64)>>

UpperHexDigits == "0123456789ABCDEF"

RECURSIVE PercentEncode(_)
PercentEncode(bytes) ==
  IF bytes = <<>> THEN ""
  ELSE "%" \o CharAt(UpperHexDigits, (Head(bytes) \div 16) + 1)
           \o CharAt(UpperHexDigits, (Head(bytes) % 16) + 1)
           \o PercentEncode(Tail(bytes))

\* the characters the serializer leaves as they are
FormSafe ==
  "ABCDEFGHIJKLMNOPQRSTUVWXYZabcdefghijklmnopqrstuvwxyz0123456789*-._"

\* what the serializer writes for every character of the alphabet
FormEncoded ==
  [ch \in Alphabet |->
     CASE IndexOf(FormSafe, ch) > 0 -> ch
       [] ch = " " -> "+"
       [] OTHER -> PercentEncode(Utf8(CharCode[ch]))]

RECURSIVE FormEncode(_)
FormEncode(s) ==
  IF Len(s) = 0 THEN ""
  ELSE IF Len(s) = 1 THEN FormEncoded[s]
  ELSE FormEncode(Left(s)) \o FormEncode(Right(s))

\* params: a sequence of [name, value] pairs in insertion order
RECURSIVE QueryString(_)
QueryString(params) ==
  IF params = <<>> THEN ""
  ELSE FormEncode(Head(params).name) \o "=" \o FormEncode(Head(params).value)
       \o (IF Len(params) > 1 THEN "&" ELSE "")
       \o QueryString(Tail(params))

\* queryParams.set(name, String(v)); every name is set once per redirect
Set(params, name, v) == Append(params, [name |-> name, value |-> ToStr(v)])

\* if (v) queryParams.set(name, v)
SetIf(params, name, v) == IF Truthy(v) THEN Set(params, name, v) ELSE params

HasParam(params, name) == \E i \in 1..Len(params) : params[i].name = name

ParamValue(params, name) ==
  params[CHOOSE i \in 1..Len(params) : params[i].name = name].value

(***************************************************************************)
(* Responses: what the handler hands to res                                *)
(***************************************************************************)
\* res.redirect(302, base + sep + params); sep is "?" or "#", params the
\* URLSearchParams before serialization
Redirect(base, sep, params) ==
  [status |-> 302, kind |-> "redirect", base |-> base, sep |-> sep,
   params |-> params, body |-> ""]

\* the URL string of a redirect
Url(redirect) ==
  redirect.base \o redirect.sep \o QueryString(redirect.params)

\* res.status(status).json({error: msg, ...})
Json(status, msg) ==
  [status |-> status, kind |-> "json", base |-> "", sep |-> "",
   params |-> <<>>, body |-> msg]

\* res.status(200).end()
End(status) == Json(status, "")

\* process.env.FRONTEND_URL || 'https://auth.manito.cl'
frontendUrl == "https://auth.manito.cl"

(***************************************************************************)
(* What the provider's verifyOtp returns                                   *)
(***************************************************************************)
NoSession ==
  [present |-> FALSE, access_token |-> Undefined, refresh_token |-> Undefined,
   expires_in |-> Undefined, expires_at |-> Undefined,
   token_type |-> Undefined]

Session(at, rt, ei, ea, tt) ==
  [present |-> TRUE, access_token |-> at, refresh_token |-> rt,
   expires_in |-> ei, expires_at |-> ea, token_type |-> tt]

\* { data: { user, session }, error: null }
Data(hasUser, session) ==
  [kind |-> "data", message |-> "", code |-> Undefined, user |-> hasUser,
   session |-> session]

\* { data: { user: null, session: null }, error: AuthError(message, code) }
Failure(message, code) ==
  [kind |-> "error", message |-> message, code |-> code, user |-> FALSE,
   session |-> NoSession]

\* the call rejects: the await throws
Throws ==
  [kind |-> "throws", message |-> "fetch failed", code |-> Undefined,
   user |-> FALSE, session |-> NoSession]

(***************************************************************************)
(* Verify requests                                                         *)
(***************************************************************************)
\* req.query; a parameter that is not in the URL is undefined
Query(token_hash, code, type, error, error_code, error_description, access_token, refresh_token) ==
  [token_hash |-> token_hash, code |-> code, type |-> type, error |-> error,
   error_code |-> error_code, error_description |-> error_description,
   access_token |-> access_token, refresh_token |-> refresh_token]

\* ua is req.headers['user-agent'], ip is x-forwarded-for, serviceKey is
\* whether SUPABASE_SERVICE_ROLE_KEY is set in the environment
VerifyRequest(handler, method, ua, ip, serviceKey, q) ==
  [handler |-> handler, method |-> method, ua |-> ua, ip |-> ip,
   serviceKey |-> serviceKey, q |-> q]

\* what a handler does next: it has sent a response, or it awaits a call
Respond(r) == [next |-> "done", res |-> <<r>>]
Await(call) == [next |-> call, res |-> <<>>]

\* the parameter object of the redirect helpers, nothing set
NoParams ==
  [type |-> Undefined, error |-> Undefined, errorCode |-> Undefined,
   originalError |-> Undefined, session_code |-> Undefined,
   access_token |-> Undefined, refresh_token |-> Undefined,
   expires_in |-> Undefined, token_type |-> Undefined, flow |-> Undefined]

ErrorParams(msg) ==
  [NoParams EXCEPT !.error = Str(msg), !.type = Str("error")]

(***************************************************************************)
(* unnamed/part_002: the relay                                             *)
(***************************************************************************)
redirectToApp(p) ==
  Redirect("/", "?",
    SetIf(SetIf(SetIf(SetIf(SetIf(SetIf(SetIf(<<>>,
      "type", p.type),
      "error", p.error),
      "session_code", p.session_code),
      "access_token", p.access_token),
      "refresh_token", p.refresh_token),
      "expires_in", p.expires_in),
      "token_type", p.token_type))

\* const { type = "signup" } = req.query
RelayType(r) == IF r.q.type = Undefined THEN Str("signup") ELSE r.q.type

RelayStart(r) ==
  IF r.method = "OPTIONS" THEN Respond(End(200))
  ELSE IF r.method \notin {"GET", "POST"}
    THEN Respond(Json(405, "Method not allowed"))
  ELSE IF Truthy(r.q.error)
    THEN Respond(redirectToApp(
           [NoParams EXCEPT !.error = Or(r.q.error_description, r.q.error),
                            !.type = Str("error")]))
  ELSE IF ~Truthy(r.q.code) \/ TypeOf(r.q.code) # "string"
          \/ Len(r.q.code.s) < 10
    THEN Respond(redirectToApp(
           ErrorParams("Código de verificación inválido o expirado")))
  ELSE Await("verifyOtp")

\* the Spanish message for a verifyError
RelayErrorMessage(message) ==
  IF Includes(message, "expired")
    THEN "El enlace de verificación ha expirado. Solicita uno nuevo."
  ELSE IF Includes(message, "invalid")
    THEN "El enlace de verificación es inválido. Verifica que hayas copiado la URL completa."
  ELSE IF Includes(message, "already")
    THEN "Este email ya ha sido verificado anteriormente."
  ELSE "Error al verificar el email"

RelayInternalError ==
  Respond(redirectToApp(
    ErrorParams("Error interno del servidor. Intenta nuevamente más tarde.")))

RelayAfterVerify(r, o) ==
  IF o.kind = "throws" THEN RelayInternalError
  ELSE IF o.kind = "error"
    THEN Respond(redirectToApp(ErrorParams(RelayErrorMessage(o.message))))
  ELSE IF ~o.session.present
    THEN Respond(redirectToApp(ErrorParams(
           "No se pudo crear la sesión. Intenta iniciar sesión manualmente.")))
  ELSE IF RelayType(r) = Str("signup") /\ o.user THEN Await("rpc")
  ELSE Await("fetch")

\* mutant: an exception of the profile call leaves the inner try
ProfileCreation_Fatal(p) == IF p = "throws" THEN "abort" ELSE "continue"

\* the try around create_user_profile_secure: a returned profileError is
\* logged, a thrown one is caught and logged
ProfileCreation(p) == "continue"

RelayAfterProfile(r, o, p) ==
  IF ProfileCreation(p) = "abort" THEN RelayInternalError ELSE Await("fetch")

\* the body posted to /api/create-secure-session, as the create handler
\* parses it
SessionData(r, o) ==
  Request("create", "POST", TRUE, o.session.access_token,
          o.session.refresh_token, o.session.expires_in,
          Or(o.session.token_type, Bearer), RelayType(r), Undefined)

\* mutant: a failed session-code creation ends in the error redirect
DirectTokens_Error(o) ==
  redirectToApp(
    ErrorParams("Error interno del servidor. Intenta nuevamente más tarde."))

\* the fallback: the tokens themselves in the redirect
DirectTokens(o) ==
  redirectToApp(
    [NoParams EXCEPT !.access_token = o.session.access_token,
                     !.refresh_token = o.session.refresh_token,
                     !.expires_in = o.session.expires_in,
                     !.token_type = Or(o.session.token_type, Bearer),
                     !.type = Str("success")])

\* c is what the fetch returned: the response of the create handler, or
\* [status |-> 0] when the fetch rejected
RelayAfterFetch(r, o, c) ==
  IF c.status >= 200 /\ c.status <= 299
    THEN Respond(redirectToApp(
           [NoParams EXCEPT !.session_code = c.session_code,
                            !.type = Str("success")]))
    ELSE Respond(DirectTokens(o))

(***************************************************************************)
(* api/verify-email-phase1.js: the phase 1 handler                         *)
(***************************************************************************)
isMobileAppRequest(userAgent) ==
  IF ~Truthy(userAgent) THEN FALSE
  ELSE \/ Includes(userAgent.s, "Expo")
       \/ Includes(userAgent.s, "ReactNative")
       \/ Includes(userAgent.s, "manito")
       \/ Includes(userAgent.s, "Mobile")

\* the six parameters of redirectToWeb and redirectToMobile
Phase1Params(sessionData) ==
  Set(Set(Set(Set(Set(Set(<<>>,
    "access_token", sessionData.access_token),
    "refresh_token", sessionData.refresh_token),
    "expires_at", ToStringOr(sessionData.expires_at, "")),
    "token_type", Or(sessionData.token_type, Bearer)),
    "verified", Str("true")),
    "flow", Str("phase1_simplified"))

redirectToWeb(sessionData) ==
  Redirect(frontendUrl \o "/", "?", Phase1Params(sessionData))

redirectToMobile(sessionData) ==
  Redirect("manito://auth/verified", "?", Phase1Params(sessionData))

\* error is { message, code }
handleError(message, code, userAgent) ==
  LET errorParams ==
        Set(Set(Set(Set(<<>>,
          "error", Str(message)),
          "error_code", Or(code, Str("verification_failed"))),
          "type", Str("error")),
          "flow", Str("phase1_simplified"))
  IN IF isMobileAppRequest(userAgent)
       THEN Redirect("manito://auth/error", "?", errorParams)
       ELSE Redirect(frontendUrl \o "/", "?", errorParams)

\* req.headers['user-agent'] || ''
UserAgent(r) == Or(r.ua, Str(""))

Phase1Start(r) ==
  IF ~Truthy(r.q.token_hash) \/ ~Truthy(r.q.type)
    THEN Respond(handleError("Missing verification parameters",
                             Str("invalid_request"), UserAgent(r)))
    ELSE Await("verifyOtp")

Phase1AfterVerify(r, o) ==
  IF o.kind = "throws"
    THEN Respond(handleError("Internal verification error",
                             Str("server_error"), UserAgent(r)))
  ELSE IF o.kind = "error"
    THEN Respond(handleError(o.message, o.code, UserAgent(r)))
  ELSE IF ~Truthy(o.session.access_token)
    THEN Respond(handleError("No session created after verification",
                             Str("session_failed"), UserAgent(r)))
  ELSE IF isMobileAppRequest(UserAgent(r))
    THEN Respond(redirectToMobile(o.session))
  ELSE Respond(redirectToWeb(o.session))

(***************************************************************************)
(* unnamed/part_007: the handler with the inline mobile test               *)
(***************************************************************************)
\* new URLSearchParams(params): every property of the object, in order
redirectToFrontendLegacy(params) ==
  Redirect(frontendUrl \o "/", "?", params)

\* userAgent.includes('Expo') || .. 'ReactNative' || .. 'manito'
isMobileApp(userAgent) ==
  \/ Includes(userAgent.s, "Expo")
  \/ Includes(userAgent.s, "ReactNative")
  \/ Includes(userAgent.s, "manito")

LegacyStart(r) ==
  IF ~Truthy(r.q.token_hash) \/ ~Truthy(r.q.type)
    THEN Respond(Json(400, "Missing token_hash or type parameter"))
    ELSE Await("verifyOtp")

LegacyAfterVerify(r, o) ==
  IF o.kind = "throws" THEN Respond(Json(500, "Internal server error"))
  ELSE IF o.kind = "error"
    THEN Respond(redirectToFrontendLegacy(
           Set(Set(<<>>, "error", Str(o.message)), "type", Str("error"))))
  ELSE IF ~o.session.present
    THEN Respond(redirectToFrontendLegacy(
           Set(Set(<<>>,
             "error", Str("Verification failed - no session created")),
             "type", Str("error"))))
  ELSE IF isMobileApp(UserAgent(r))
    THEN Respond(Redirect("manito://auth/verified", "?",
           Set(Set(Set(Set(Set(Set(Set(<<>>,
             "access_token", o.session.access_token),
             "refresh_token", o.session.refresh_token),
             "expires_at", ToStringOr(o.session.expires_at, "")),
             "token_type", Or(o.session.token_type, Bearer)),
             "auth_method", Str("email")),
             "flow_type", Str("pkce")),
             "verified", Str("true"))))
  ELSE Respond(redirectToFrontendLegacy(
         Set(Set(Set(Set(Set(Set(<<>>,
           "access_token", o.session.access_token),
           "refresh_token", o.session.refresh_token),
           "expires_in", ToStringOr(o.session.expires_in, "3600")),
           "token_type", Or(o.session.token_type, Bearer)),
           "type", Str("success")),
           "flow", Str("pkce"))))

(***************************************************************************)
(* api/verify-email-new.js and the second file of unnamed/part_006         *)
(***************************************************************************)
windowMs == 60000
maxRequests == 5

\* the record checkRateLimit works on: the stored one or a new one, reset
\* when its window has passed
RateRecord_NoReset(store, clientIP, t) ==
  LET key == "rate_limit_" \o clientIP
  IN IF key \in DOMAIN store THEN store[key]
     ELSE [count |-> 0, resetTime |-> t + windowMs]

RateRecord(store, clientIP, t) ==
  LET key == "rate_limit_" \o clientIP
      existing == IF key \in DOMAIN store THEN store[key]
                  ELSE [count |-> 0, resetTime |-> t + windowMs]
  IN IF t > existing.resetTime
       THEN [count |-> 0, resetTime |-> t + windowMs]
       ELSE existing

\* the value checkRateLimit returns
checkRateLimit_OffByOne(store, clientIP, t) ==
  RateRecord(store, clientIP, t).count <= maxRequests

checkRateLimit(store, clientIP, t) ==
  RateRecord(store, clientIP, t).count < maxRequests

RateLimitStoreAfter_CountsDenied(store, clientIP, t) ==
  MapSet(store, "rate_limit_" \o clientIP,
         [RateRecord(store, clientIP, t) EXCEPT !.count = @ + 1])

\* the Map after checkRateLimit
RateLimitStoreAfter(store, clientIP, t) ==
  MapSet(store, "rate_limit_" \o clientIP,
         IF checkRateLimit(store, clientIP, t)
           THEN [RateRecord(store, clientIP, t) EXCEPT !.count = @ + 1]
           ELSE RateRecord(store, clientIP, t))

\* /[<>"'&\n\r\t]/g
Removed == {"<", ">", "\"", "'", "&", "\n", "\r", "\t"}

RECURSIVE Strip(_)
Strip(s) ==
  IF Len(s) = 0 THEN ""
  ELSE IF Len(s) = 1 THEN (IF s \in Removed THEN "" ELSE s)
  ELSE Strip(Left(s)) \o Strip(Right(s))

sanitizeParam(param) ==
  IF TypeOf(param) # "string" THEN param
  ELSE Str(Substring(Strip(param.s), 0, 200))

\* if (v) queryParams.set(name, sanitizeParam(v))
SetSanitizedIf(params, name, v) ==
  IF Truthy(v) THEN Set(params, name, sanitizeParam(v)) ELSE params

MaxUrlLength == 2048

redirectToFrontend_Unguarded(p) ==
  LET queryParams ==
        SetIf(SetSanitizedIf(SetSanitizedIf(SetIf(SetIf(SetIf(
        SetSanitizedIf(SetSanitizedIf(SetSanitizedIf(<<>>,
          "type", p.type),
          "error", p.error),
          "error_code", p.errorCode),
          "access_token", p.access_token),
          "refresh_token", p.refresh_token),
          "expires_in", p.expires_in),
          "token_type", p.token_type),
          "flow", p.flow),
          "session_code", p.session_code)
      sep == IF p.type = Str("error") \/ p.type = Str("unauthorized")
               THEN "?" ELSE "#"
  IN Redirect("/", sep, queryParams)

redirectToFrontend(p) ==
  LET queryParams ==
        SetIf(SetSanitizedIf(SetSanitizedIf(SetIf(SetIf(SetIf(
        SetSanitizedIf(SetSanitizedIf(SetSanitizedIf(<<>>,
          "type", p.type),
          "error", p.error),
          "error_code", p.errorCode),
          "access_token", p.access_token),
          "refresh_token", p.refresh_token),
          "expires_in", p.expires_in),
          "token_type", p.token_type),
          "flow", p.flow),
          "session_code", p.session_code)
      sep == IF p.type = Str("error") \/ p.type = Str("unauthorized")
               THEN "?" ELSE "#"
      redirect == Redirect("/", sep, queryParams)
  IN IF Len(Url(redirect)) > MaxUrlLength
       THEN Redirect("/", "?",
              <<[name |-> "error", value |-> "invalid_request"],
                [name |-> "type", value |-> "error"]>>)
       ELSE redirect

\* switch (error) of the two handlers
ProviderRedirectMessage(q) ==
  CASE q.error = Str("server_error") ->
         IF q.error_code = Str("unexpected_failure")
           THEN Str("Error en el servidor. El enlace puede haber expirado o ser inválido.")
           ELSE Str("Error interno del servidor. Intenta nuevamente más tarde.")
    [] q.error = Str("invalid_request") ->
         Str("Enlace de verificación inválido. Verifica que hayas copiado la URL completa.")
    [] q.error = Str("access_denied") ->
         Str("Acceso denegado. El enlace puede haber expirado.")
    [] OTHER ->
         Or(q.error_description, Str("Error desconocido al verificar el email"))

ProviderRedirect(q) ==
  redirectToFrontend(
    [NoParams EXCEPT !.error = ProviderRedirectMessage(q),
                     !.type = Str("error"),
                     !.errorCode = Or(q.error_code, q.error)])

RateLimited ==
  redirectToFrontend(ErrorParams(
    "Demasiados intentos. Espera un momento antes de intentar nuevamente."))

\* the three mapped messages, "" when no keyword is in the message
MappedMessage_CaseSensitive(message) ==
  LET errorMsg == message
  IN IF Includes(errorMsg, "expired") \/ Includes(errorMsg, "invalid")
       THEN "El enlace de verificación ha expirado o es inválido. Solicita uno nuevo."
     ELSE IF Includes(errorMsg, "already") \/ Includes(errorMsg, "confirmed")
       THEN "Este email ya ha sido verificado. Puedes iniciar sesión normalmente."
     ELSE IF Includes(errorMsg, "not found")
       THEN "No se encontró el usuario. Verifica que te hayas registrado correctamente."
     ELSE ""

MappedMessage(message) ==
  LET errorMsg == toLowerCase(message)
  IN IF Includes(errorMsg, "expired") \/ Includes(errorMsg, "invalid")
       THEN "El enlace de verificación ha expirado o es inválido. Solicita uno nuevo."
     ELSE IF Includes(errorMsg, "already") \/ Includes(errorMsg, "confirmed")
       THEN "Este email ya ha sido verificado. Puedes iniciar sesión normalmente."
     ELSE IF Includes(errorMsg, "not found")
       THEN "No se encontró el usuario. Verifica que te hayas registrado correctamente."
     ELSE ""

\* the success redirect of the two handlers
SessionRedirect(o) ==
  redirectToFrontend(
    [NoParams EXCEPT !.access_token = o.session.access_token,
                     !.refresh_token = o.session.refresh_token,
                     !.expires_in = ToStringOr(o.session.expires_in, "3600"),
                     !.token_type = Or(o.session.token_type, Bearer),
                     !.type = Str("success"),
                     !.flow = Str("pkce")])

InternalError ==
  redirectToFrontend(ErrorParams(
    "Error interno del servidor. Intenta nuevamente más tarde."))

NoSessionError ==
  redirectToFrontend(ErrorParams(
    "Verificación exitosa pero no se pudo crear la sesión. Intenta iniciar sesión manualmente."))

NewStart_Unguarded(r, admitted) ==
  IF r.method = "OPTIONS" THEN Respond(End(200))
  ELSE IF r.method # "GET" THEN Respond(Json(405, "Method not allowed"))
  ELSE IF Truthy(r.q.error) THEN Respond(ProviderRedirect(r.q))
  ELSE Await("verifyOtp")

\* verify-email-new.js; admitted is what checkRateLimit returned
NewStart(r, admitted) ==
  IF r.method = "OPTIONS" THEN Respond(End(200))
  ELSE IF r.method # "GET" THEN Respond(Json(405, "Method not allowed"))
  ELSE IF ~admitted THEN Respond(RateLimited)
  ELSE IF Truthy(r.q.error) THEN Respond(ProviderRedirect(r.q))
  ELSE IF ~Truthy(r.q.token_hash) /\ ~Truthy(r.q.access_token)
    THEN Respond(redirectToFrontend(
           [NoParams EXCEPT !.error = Str("Acceso no autorizado"),
                            !.type = Str("unauthorized")]))
  ELSE IF Truthy(r.q.access_token) /\ Truthy(r.q.refresh_token)
    THEN Respond(redirectToFrontend(
           [NoParams EXCEPT !.access_token = r.q.access_token,
                            !.refresh_token = r.q.refresh_token,
                            !.token_type = Bearer,
                            !.expires_in = Str("3600"),
                            !.type = Str("success"),
                            !.flow = Str("implicit")]))
  ELSE IF Truthy(r.q.token_hash)
    THEN IF Len(r.q.token_hash.s) < 10
           THEN Respond(redirectToFrontend(ErrorParams(
                  "Enlace de verificación inválido o corrupto")))
           ELSE Await("verifyOtp")
  ELSE Respond(redirectToFrontend(ErrorParams(
         "Estado de verificación inesperado. Contacta al soporte técnico.")))

NewAfterVerify(r, o) ==
  IF o.kind = "throws" THEN Respond(InternalError)
  ELSE IF o.kind = "error"
    THEN Respond(redirectToFrontend(
           [NoParams EXCEPT
              !.error = IF MappedMessage(o.message) # ""
                          THEN Str(MappedMessage(o.message))
                          ELSE Str("Error al verificar el email"),
              !.type = Str("error"),
              !.originalError = Str(o.message)]))
  ELSE IF ~o.session.present \/ ~o.user THEN Respond(NoSessionError)
  ELSE Respond(SessionRedirect(o))

\* const { type = "email" } = req.query
PkceType(r) == IF r.q.type = Undefined THEN Str("email") ELSE r.q.type

\* the second file of unnamed/part_006
PkceStart(r, admitted, serviceKey) ==
  IF r.method = "OPTIONS" THEN Respond(End(200))
  ELSE IF r.method # "GET" THEN Respond(Json(405, "Method not allowed"))
  ELSE IF ~admitted THEN Respond(RateLimited)
  ELSE IF Truthy(r.q.error) THEN Respond(ProviderRedirect(r.q))
  ELSE IF ~Truthy(r.q.token_hash) \/ TypeOf(r.q.token_hash) # "string"
    THEN Respond(redirectToFrontend(
           [NoParams EXCEPT !.error = Str("Acceso no autorizado"),
                            !.type = Str("unauthorized")]))
  ELSE IF Len(r.q.token_hash.s) < 10
    THEN Respond(redirectToFrontend(ErrorParams(
           "Enlace de verificación inválido o corrupto")))
  ELSE IF ~serviceKey
    THEN Respond(redirectToFrontend(ErrorParams(
           "Configuración del servidor incompleta. Contacta al soporte técnico.")))
  ELSE Await("verifyOtp")

PkceAfterVerify(r, o) ==
  IF o.kind = "throws" THEN Respond(InternalError)
  ELSE IF o.kind = "error"
    THEN Respond(redirectToFrontend(
           [NoParams EXCEPT
              !.error =
                 IF MappedMessage(o.message) # ""
                   THEN Str(MappedMessage(o.message))
                   ELSE Str("VERIFY_OTP_FAILED: " \o o.message
                            \o " | Params: token_hash="
                            \o Substring(r.q.token_hash.s, 0, 10)
                            \o "..., type=" \o ToStr(PkceType(r))),
              !.type = Str("error"),
              !.originalError = Str(o.message)]))
  ELSE IF ~o.session.present \/ ~o.user THEN Respond(NoSessionError)
  ELSE Respond(SessionRedirect(o))

(***************************************************************************)
(* The webhook: the first file of unnamed/part_006, and api/auth-webhook.js *)
(* which is the same handler without createProfileAfterVerification        *)
(***************************************************************************)
\* signature: "none", "good" (the HMAC of the body) or "bad"; secret:
\* whether SUPABASE_WEBHOOK_SECRET is set; record and old_record by the
\* fields the handler reads.  old_confirmed is whether the user had
\* email_confirmed_at before the update: old_record carries it in the UPDATE
\* format, the auth.user.updated format carries no old record
WebhookRequest(method, signature, secret, hasBody, type, table, old_confirmed, confirmed, email, meta_user_type) ==
  [handler |-> "webhook", method |-> method, signature |-> signature,
   secret |-> secret, hasBody |-> hasBody, type |-> type, table |-> table,
   old_confirmed |-> old_confirmed, confirmed |-> confirmed,
   email |-> email, meta_user_type |-> meta_user_type]

\* the handler has detected a verification in the event
Detected(e) ==
  \/ /\ e.type = "UPDATE" /\ e.table = "users"
     /\ ~e.old_confirmed /\ e.confirmed /\ e.email
  \/ /\ e.type = "auth.user.updated"
     /\ e.confirmed /\ e.email

WebhookProcessed == Json(200, "Webhook processed successfully")

WebhookStart(e) ==
  IF e.method # "POST" THEN Respond(Json(405, "Method not allowed"))
  ELSE IF e.signature # "none" /\ e.secret /\ e.signature # "good"
    THEN Respond(Json(401, "Invalid signature"))
  ELSE IF ~e.hasBody THEN Respond(Json(500, "Internal server error"))
  ELSE IF ~Detected(e) THEN Respond(WebhookProcessed)
  ELSE IF ~e.meta_user_type THEN Await("selectUserType")
  ELSE IF e.handler = "authWebhook" THEN Await("insertEvent")
  ELSE Await("createProfile")

\* the try around the user_type query: whatever it returns, the default
\* 'customer' or the row's user_type is used
WebhookAfterUserType(e, u) ==
  IF e.handler = "authWebhook" THEN Await("insertEvent")
  ELSE Await("createProfile")

\* the try around createProfileAfterVerification: it returns, or it throws
\* checkError or profileError, or a call in it rejects; all are caught
WebhookAfterProfile(e, p) == Await("insertEvent")

\* insert into verification_events: a returned insertError is logged
WebhookAfterInsert(e, i) ==
  IF i = "throws" THEN Respond(Json(500, "Internal server error"))
  ELSE IF e.type = "UPDATE" THEN Await("cleanup")
  ELSE Respond(WebhookProcessed)

\* delete of the events older than an hour
WebhookAfterCleanup(e, d) ==
  IF d = "throws" THEN Respond(Json(500, "Internal server error"))
  ELSE Respond(WebhookProcessed)

(***************************************************************************)
(* The requests and the outcomes of the environment                        *)
(***************************************************************************)
ExpoAgent == Str("Expo/1017756 CFNetwork/1410.0.3 Darwin/22.6.0")
MobileBrowser ==
  Str("Mozilla/5.0 (iPhone; CPU iPhone OS 17_0) Mobile/15E148 Safari/604.1")
DesktopBrowser == Str("Mozilla/5.0 (Windows NT 10.0; Win64; x64)")

ClientIP == "203.0.113.7"

TokenHash == Str("pkce_" \o Rep("7", 16))

NoQuery ==
  Query(Undefined, Undefined, Undefined, Undefined, Undefined, Undefined,
        Undefined, Undefined)

\* ?token_hash=..&type=..
HashQuery(token_hash, type) ==
  [NoQuery EXCEPT !.token_hash = token_hash, !.type = type]

\* ?error=..&error_code=..&error_description=.., as the provider redirects
ErrorQuery(error, error_code, error_description) ==
  [NoQuery EXCEPT !.error = error, !.error_code = error_code,
                  !.error_description = error_description]

RelayRequests ==
  { VerifyRequest("relay", "GET", ExpoAgent, ClientIP, TRUE,
                  [NoQuery EXCEPT !.code = TokenHash]),
    VerifyRequest("relay", "GET", DesktopBrowser, ClientIP, TRUE,
                  [NoQuery EXCEPT !.code = TokenHash,
                                  !.type = Str("recovery")]),
    VerifyRequest("relay", "GET", DesktopBrowser, ClientIP, TRUE,
                  [NoQuery EXCEPT !.code = Str("abc")]),
    VerifyRequest("relay", "GET", ExpoAgent, ClientIP, TRUE,
                  ErrorQuery(Str("access_denied"), Str("otp_expired"),
                             Str("Email link is invalid or has expired"))),
    VerifyRequest("relay", "OPTIONS", DesktopBrowser, ClientIP, TRUE,
                  NoQuery),
    VerifyRequest("relay", "DELETE", DesktopBrowser, ClientIP, TRUE,
                  NoQuery) }

Phase1Requests ==
  { VerifyRequest("phase1", "GET", ua, ClientIP, TRUE,
                  HashQuery(TokenHash, Str("email"))) :
      ua \in {ExpoAgent, MobileBrowser, DesktopBrowser, Undefined} }
  \cup
  { VerifyRequest("phase1", "GET", ua, ClientIP, TRUE,
                  HashQuery(Undefined, Str("email"))) :
      ua \in {ExpoAgent, DesktopBrowser} }

LegacyRequests ==
  { VerifyRequest("legacy", "GET", ua, ClientIP, TRUE,
                  HashQuery(TokenHash, Str("email"))) :
      ua \in {ExpoAgent, MobileBrowser, DesktopBrowser} }
  \cup
  { VerifyRequest("legacy", "GET", ua, ClientIP, TRUE,
                  HashQuery(TokenHash, Undefined)) :
      ua \in {ExpoAgent, DesktopBrowser} }

\* descriptions a crafted link can carry: markup, a form feed, 250 letters
Markup == Str("<img src=x onerror=\"alert('1')\">&\r\n\ttail")
FormFeed == Str("line one\fline two")
Long ==
  Str(Rep("A", 50) \o Rep("A", 50) \o Rep("A", 50) \o Rep("A", 50)
      \o Rep("A", 50))

\* the queries the two rate-limited handlers are sent
GuardedQueries ==
  { HashQuery(TokenHash, Undefined),
    HashQuery(TokenHash, Str("recovery")),
    HashQuery(Str("abc"), Undefined),
    NoQuery,
    ErrorQuery(Str("server_error"), Str("unexpected_failure"), Undefined),
    ErrorQuery(Str("access_denied"), Undefined,
               Str("Email link is invalid or has expired")),
    ErrorQuery(Str("otp<expired>"), Undefined, Markup),
    ErrorQuery(Str("unknown"), Long, FormFeed),
    [NoQuery EXCEPT !.access_token = Str(Rep("a", 60)),
                    !.refresh_token = Str(Rep("b", 20))],
    [NoQuery EXCEPT !.access_token = Str(Rep("a", 60))] }

NewRequests ==
  { VerifyRequest("new", "GET", DesktopBrowser, ClientIP, TRUE, q) :
      q \in GuardedQueries }
  \cup
  { VerifyRequest("new", "GET", ExpoAgent, ClientIP, TRUE,
                  HashQuery(TokenHash, Undefined)),
    VerifyRequest("new", "POST", DesktopBrowser, ClientIP, TRUE,
                  HashQuery(TokenHash, Undefined)),
    VerifyRequest("new", "OPTIONS", DesktopBrowser, ClientIP, TRUE,
                  NoQuery) }

PkceRequests ==
  { VerifyRequest("pkce", "GET", DesktopBrowser, ClientIP, TRUE, q) :
      q \in GuardedQueries }
  \cup
  { VerifyRequest("pkce", "GET", ExpoAgent, ClientIP, TRUE,
                  HashQuery(TokenHash, Undefined)),
    VerifyRequest("pkce", "GET", DesktopBrowser, ClientIP, FALSE,
                  HashQuery(TokenHash, Undefined)),
    VerifyRequest("pkce", "POST", DesktopBrowser, ClientIP, TRUE,
                  HashQuery(TokenHash, Undefined)),
    VerifyRequest("pkce", "OPTIONS", DesktopBrowser, ClientIP, TRUE,
                  NoQuery) }

VerifyRequests ==
  RelayRequests \cup Phase1Requests \cup LegacyRequests \cup NewRequests
  \cup PkceRequests

\* a session as the provider issues it, and one whose access token is
\* shorter than create-secure-session accepts and that names no token type
FullSession ==
  Session(Str(Rep("a", 60)), Str(Rep("b", 20)), Num(3600), Num(1700003600),
          Bearer)
ShortSession ==
  Session(Str(Rep("s", 40)), Str(Rep("r", 12)), Undefined, Undefined,
          Undefined)

\* the string of k characters ch, built by halves
RECURSIVE Pad(_, _)
Pad(ch, k) ==
  IF k <= 32 THEN Rep(ch, k)
  ELSE Pad(ch, k \div 2) \o Pad(ch, k - (k \div 2))

\* the length of the success redirect of verify-email-new.js without its
\* access token
SuccessUrlOverhead ==
  Len("/#type=success&access_token=&refresh_token=" \o Rep("b", 20)
      \o "&expires_in=3600&token_type=bearer&flow=pkce")

\* a session whose success redirect is exactly 2048 characters long, and
\* one whose success redirect is one character longer
BoundarySession ==
  Session(Str(Pad("a", 2048 - SuccessUrlOverhead)), Str(Rep("b", 20)),
          Num(3600), Num(1700003600), Bearer)
OversizedSession ==
  Session(Str(Pad("a", 2049 - SuccessUrlOverhead)), Str(Rep("b", 20)),
          Num(3600), Num(1700003600), Bearer)

ProviderOutcomes ==
  { Failure("Token has expired or is invalid", Str("otp_expired")),
    Failure("User already registered", Undefined),
    Failure("User not found", Str("user_not_found")),
    Failure("Signups not allowed for otp", Str("otp_disabled")),
    Failure("Email already confirmed: link EXPIRED", Str("otp_expired")),
    Failure("User not found or already removed", Str("user_not_found")),
    Data(TRUE, FullSession),
    Data(TRUE, ShortSession),
    Data(TRUE, BoundarySession),
    Data(TRUE, OversizedSession),
    Data(TRUE, NoSession),
    Data(FALSE, FullSession),
    Throws }

\* create_user_profile_secure: it returns data, returns an error, or rejects
ProfileOutcomes == {"ok", "error", "throws"}

\* a call of the webhook returns rows, returns an error, or rejects
QueryOutcomes == {"ok", "error", "throws"}

WebhookRequests ==
  { \* the two formats, a verification
    WebhookRequest("POST", "none", FALSE, TRUE, "UPDATE", "users",
                   FALSE, TRUE, TRUE, TRUE),
    WebhookRequest("POST", "good", TRUE, TRUE, "UPDATE", "users",
                   FALSE, TRUE, TRUE, FALSE),
    WebhookRequest("POST", "none", FALSE, TRUE, "auth.user.updated", "",
                   FALSE, TRUE, TRUE, FALSE),
    \* an update of a user verified before, in the two formats
    WebhookRequest("POST", "none", FALSE, TRUE, "UPDATE", "users",
                   TRUE, TRUE, TRUE, TRUE),
    WebhookRequest("POST", "none", FALSE, TRUE, "auth.user.updated", "",
                   TRUE, TRUE, TRUE, TRUE),
    \* an update of a user not verified
    WebhookRequest("POST", "none", FALSE, TRUE, "UPDATE", "users",
                   FALSE, FALSE, TRUE, TRUE),
    \* another table
    WebhookRequest("POST", "none", FALSE, TRUE, "INSERT", "profiles",
                   FALSE, TRUE, TRUE, TRUE),
    \* a wrong signature, and no signature header, with the secret set
    WebhookRequest("POST", "bad", TRUE, TRUE, "UPDATE", "users",
                   FALSE, TRUE, TRUE, TRUE),
    WebhookRequest("POST", "none", TRUE, TRUE, "UPDATE", "users",
                   FALSE, TRUE, TRUE, TRUE),
    \* a wrong signature with the secret left at its default
    WebhookRequest("POST", "bad", FALSE, TRUE, "UPDATE", "users",
                   FALSE, TRUE, TRUE, TRUE),
    \* no body, wrong method
    WebhookRequest("POST", "none", FALSE, FALSE, "", "",
                   FALSE, FALSE, FALSE, FALSE),
    WebhookRequest("GET", "none", FALSE, FALSE, "", "",
                   FALSE, FALSE, FALSE, FALSE) }

\* the same requests sent to api/auth-webhook.js
AuthWebhookRequests ==
  {[e EXCEPT !.handler = "authWebhook"] : e \in WebhookRequests}

(***************************************************************************)
(* The steps of the verify handlers and of the webhook                     *)
(***************************************************************************)
IsVerify(r) == r.handler \in {"relay", "phase1", "legacy", "new", "pkce"}

IsWebhook(r) == r.handler \in {"webhook", "authWebhook"}

RateLimitedHandlers == {"new", "pkce"}

\* the handler, from its entry to its first await or its response
Start(r, store, t) ==
  CASE r.handler = "relay" -> RelayStart(r)
    [] r.handler = "phase1" -> Phase1Start(r)
    [] r.handler = "legacy" -> LegacyStart(r)
    [] r.handler = "new" ->
         NewStart(r, checkRateLimit(store["new"], r.ip, t))
    [] r.handler = "pkce" ->
         PkceStart(r, checkRateLimit(store["pkce"], r.ip, t), r.serviceKey)

\* the handler, from the return of verifyOtp on
AfterVerify(r, o) ==
  CASE r.handler = "relay" -> RelayAfterVerify(r, o)
    [] r.handler = "phase1" -> Phase1AfterVerify(r, o)
    [] r.handler = "legacy" -> LegacyAfterVerify(r, o)
    [] r.handler = "new" -> NewAfterVerify(r, o)
    [] r.handler = "pkce" -> PkceAfterVerify(r, o)

\* what a call of the current request returned
Returned(name) ==
  calls[CHOOSE i \in 1..Len(calls) : calls[i].name = name].out

Called(name) == \E i \in 1..Len(calls) : calls[i].name = name

Call(name, out) == [name |-> name, out |-> out]

\* the admissions of log that lie in the windowMs milliseconds up to t
Recent(log, t) ==
  [a \in {b \in DOMAIN log : b.at >= t - windowMs} |-> log[a]]

\* log with one more admission a
Admit(log, a) ==
  [b \in DOMAIN log \cup {a} |->
     IF b \in DOMAIN log
       THEN (IF b = a THEN log[b] + 1 ELSE log[b])
       ELSE 1]

\* a request arrives at one of the five verify handlers, which runs to its
\* first await or to its response
Arrive(r) ==
  /\ vpc \in {"idle", "done"}
  /\ vreq' = r
  /\ calls' = <<>>
  /\ vpc' = Start(r, rateLimitStore, now).next
  /\ vres' = Start(r, rateLimitStore, now).res
  /\ rateLimitStore' =
       IF r.handler \in RateLimitedHandlers /\ r.method = "GET"
         THEN [rateLimitStore EXCEPT
                 ![r.handler] = RateLimitStoreAfter(@, r.ip, now)]
         ELSE rateLimitStore
  /\ admissions' =
       IF /\ r.handler \in RateLimitedHandlers /\ r.method = "GET"
          /\ checkRateLimit(rateLimitStore[r.handler], r.ip, now)
         THEN Admit(Recent(admissions, now),
                    [handler |-> r.handler, ip |-> r.ip, at |-> now])
         ELSE Recent(admissions, now)
  /\ UNCHANGED <<storeVars, linkVars, provisionVars, pageVars>>

\* a GET /verify arrives at one of the five handlers
VerifyArrive(r) ==
  /\ arrivals < MaxArrivals
  /\ arrivals' = arrivals + 1
  /\ Arrive(r)

\* supabase.auth.verifyOtp settles
VerifyOtpReturns(o) ==
  /\ vpc = "verifyOtp"
  /\ calls' = Append(calls, Call("verifyOtp", o))
  /\ vpc' = AfterVerify(vreq, o).next
  /\ vres' = vres \o AfterVerify(vreq, o).res
  /\ UNCHANGED <<vreq, rateLimitStore, arrivals, admissions>>
  /\ UNCHANGED <<storeVars, linkVars, provisionVars, pageVars>>

\* the relay's rpc("create_user_profile_secure") settles
ProfileRpcReturns(p) ==
  /\ vpc = "rpc"
  /\ calls' = Append(calls, Call("rpc", p))
  /\ vpc' = RelayAfterProfile(vreq, Returned("verifyOtp"), p).next
  /\ vres' = vres \o RelayAfterProfile(vreq, Returned("verifyOtp"), p).res
  /\ UNCHANGED <<vreq, rateLimitStore, arrivals, admissions>>
  /\ UNCHANGED <<storeVars, linkVars, provisionVars, pageVars>>

\* the relay's fetch of /api/create-secure-session settles: the create
\* handler ran on the posted body, or the fetch rejected
CreateSessionReturns(reached) ==
  /\ vpc = "fetch"
  /\ \E bytes \in RandomPool :
       LET o == Returned("verifyOtp")
           body == SessionData(vreq, o)
           ok == reached /\ CreateStatus(body) = 200
           code == ToHex(bytes)
           after == IF reached
                      THEN CreateStore(sessionCodeStore, body, bytes, now, now)
                      ELSE sessionCodeStore
           c == IF reached THEN CreateResponse(body, bytes, now)
                ELSE [NoResponse EXCEPT !.status = 0]
       IN /\ sessionCodeStore' = after
          /\ owner' = [k \in DOMAIN after |->
                         IF ok /\ k = code
                           THEN [at |-> now, taken |-> 0]
                           ELSE owner[k]]
          /\ swept' = IF ok
                        THEN (swept \cup (DOMAIN sessionCodeStore \ DOMAIN after))
                               \ {code}
                        ELSE swept
          /\ calls' = Append(calls, Call("fetch", c))
          /\ vpc' = RelayAfterFetch(vreq, o, c).next
          /\ vres' = vres \o RelayAfterFetch(vreq, o, c).res
  /\ UNCHANGED <<vreq, rateLimitStore, arrivals, admissions>>
  /\ UNCHANGED <<now, pc, req, resp, racing, linkVars, provisionVars, pageVars>>

\* a POST arrives at the webhook
WebhookArrive(e) ==
  /\ vpc \in {"idle", "done"}
  /\ arrivals < MaxArrivals
  /\ arrivals' = arrivals + 1
  /\ vreq' = e
  /\ calls' = <<>>
  /\ vpc' = WebhookStart(e).next
  /\ vres' = WebhookStart(e).res
  /\ UNCHANGED <<rateLimitStore, admissions>>
  /\ UNCHANGED <<storeVars, linkVars, provisionVars, pageVars>>

\* the webhook's query of users.user_type settles
SelectUserTypeReturns(u) ==
  /\ vpc = "selectUserType"
  /\ calls' = Append(calls, Call("selectUserType", u))
  /\ vpc' = WebhookAfterUserType(vreq, u).next
  /\ vres' = vres \o WebhookAfterUserType(vreq, u).res
  /\ UNCHANGED <<vreq, rateLimitStore, arrivals, admissions>>
  /\ UNCHANGED <<storeVars, linkVars, provisionVars, pageVars>>

\* createProfileAfterVerification settles
CreateProfileReturns(p) ==
  /\ vpc = "createProfile"
  /\ calls' = Append(calls, Call("createProfile", p))
  /\ vpc' = WebhookAfterProfile(vreq, p).next
  /\ vres' = vres \o WebhookAfterProfile(vreq, p).res
  /\ UNCHANGED <<vreq, rateLimitStore, arrivals, admissions>>
  /\ UNCHANGED <<storeVars, linkVars, provisionVars, pageVars>>

\* the insert into verification_events settles
InsertEventReturns(i) ==
  /\ vpc = "insertEvent"
  /\ calls' = Append(calls, Call("insertEvent", i))
  /\ vpc' = WebhookAfterInsert(vreq, i).next
  /\ vres' = vres \o WebhookAfterInsert(vreq, i).res
  /\ UNCHANGED <<vreq, rateLimitStore, arrivals, admissions>>
  /\ UNCHANGED <<storeVars, linkVars, provisionVars, pageVars>>

\* the delete of old verification events settles
CleanupReturns(d) ==
  /\ vpc = "cleanup"
  /\ calls' = Append(calls, Call("cleanup", d))
  /\ vpc' = WebhookAfterCleanup(vreq, d).next
  /\ vres' = vres \o WebhookAfterCleanup(vreq, d).res
  /\ UNCHANGED <<vreq, rateLimitStore, arrivals, admissions>>
  /\ UNCHANGED <<storeVars, linkVars, provisionVars, pageVars>>

VerifyNext ==
  \/ \E r \in VerifyRequests : VerifyArrive(r)
  \/ \E o \in ProviderOutcomes : VerifyOtpReturns(o)
  \/ \E p \in ProfileOutcomes : ProfileRpcReturns(p)
  \/ \E reached \in BOOLEAN : CreateSessionReturns(reached)
  \/ \E e \in WebhookRequests \cup AuthWebhookRequests : WebhookArrive(e)
  \/ \E u \in QueryOutcomes : SelectUserTypeReturns(u)
  \/ \E p \in ProfileOutcomes : CreateProfileReturns(p)
  \/ \E i \in QueryOutcomes : InsertEventReturns(i)
  \/ \E d \in QueryOutcomes : CleanupReturns(d)

VerifySpec == Init /\ [][VerifyNext]_vars

\* the calls other than the provider exchange settle: the event loop runs
\* a continuation once its promise settles.  Nothing in the handlers makes
\* supabase.auth.verifyOtp settle, so no fairness is assumed for it
Settles ==
  \/ \E p \in ProfileOutcomes : ProfileRpcReturns(p)
  \/ \E reached \in BOOLEAN : CreateSessionReturns(reached)
  \/ \E u \in QueryOutcomes : SelectUserTypeReturns(u)
  \/ \E p \in ProfileOutcomes : CreateProfileReturns(p)
  \/ \E i \in QueryOutcomes : InsertEventReturns(i)
  \/ \E d \in QueryOutcomes : CleanupReturns(d)

VerifyLiveSpec == VerifySpec /\ WF_vars(Settles)

(***************************************************************************)
(* The rate limiter of api/verify-email-new.js over time: any number of    *)
(* requests from two client IPs                                            *)
(***************************************************************************)
OtherIP == "198.51.100.23"

RateTimes == {0, windowMs} \cup {windowMs + k : k \in 1..MaxLate}

RateRequests ==
  { VerifyRequest("new", "GET", DesktopBrowser, ClientIP, TRUE, q) :
      q \in { HashQuery(TokenHash, Undefined),
              HashQuery(Str("abc"), Undefined),
              ErrorQuery(Str("server_error"), Str("unexpected_failure"),
                         Undefined),
              [NoQuery EXCEPT !.access_token = Str(Rep("a", 60)),
                              !.refresh_token = Str(Rep("b", 20))] } }
  \cup
  { VerifyRequest("new", "POST", DesktopBrowser, ClientIP, TRUE,
                  HashQuery(TokenHash, Undefined)),
    VerifyRequest("new", "GET", DesktopBrowser, OtherIP, TRUE,
                  HashQuery(TokenHash, Undefined)) }

RateOutcomes ==
  { Failure("Token has expired or is invalid", Str("otp_expired")),
    Data(TRUE, FullSession) }

\* a request arrives at verify-email-new.js; the second client IP sends
\* one request
RateArrive(r) ==
  /\ r.ip = OtherIP
     => ~MapHas(rateLimitStore[r.handler], Str("rate_limit_" \o r.ip))
  /\ Arrive(r)
  /\ UNCHANGED arrivals

\* time passes
RateTick ==
  /\ \E t \in RateTimes :
       /\ t > now
       /\ now' = t
       /\ admissions' = Recent(admissions, t)
  /\ UNCHANGED <<sessionCodeStore, pc, req, resp, owner, swept, racing>>
  /\ UNCHANGED <<vreq, vpc, calls, vres, rateLimitStore, arrivals, linkVars, provisionVars, pageVars>>

RateNext ==
  \/ \E r \in RateRequests : RateArrive(r)
  \/ \E o \in RateOutcomes : VerifyOtpReturns(o)
  \/ RateTick

RateSpec == Init /\ [][RateNext]_vars

(***************************************************************************)
(* The single-use link handlers, unnamed/part_003 and unnamed/part_004.    *)
(* A request carries req.query.token_hash, access_token and type, and the  *)
(* query parameters of the URL in its Referer header as a sequence of      *)
(* name and value pairs (empty when there is no header).  The requests     *)
(* carry an email or no refresh_token, so part_004 does not call           *)
(* setSession.  is_verification_token_used and                             *)
(* mark_verification_token_used are functions of the database: the first   *)
(* tells whether the hash was stored, the second stores it.                *)
(***************************************************************************)
LinkRequest(handler, token_hash, access_token, type, referer) == [handler |-> handler, token_hash |-> token_hash, access_token |-> access_token, type |-> type, referer |-> referer]

\* refererURL.searchParams.get(name): the first value, or null
SearchParam(referer, name) ==
  IF \E i \in 1..Len(referer) : referer[i].name = name
    THEN Str(referer[CHOOSE i \in 1..Len(referer) :
                       /\ referer[i].name = name
                       /\ \A j \in 1..(i - 1) : referer[j].name # name].value)
    ELSE Undefined

\* tokenToCheck of part_003: the query's token_hash or access_token, else
\* the referer's
TokenToCheck003(r) ==
  LET urlTokenHash == Or(r.token_hash, r.access_token)
  IN IF ~Truthy(urlTokenHash) /\ Len(r.referer) > 0
       THEN Or(SearchParam(r.referer, "token_hash"),
               SearchParam(r.referer, "access_token"))
       ELSE urlTokenHash

\* tokenToCheck of part_004: the query's token_hash, else the referer's
\* token_hash, token or confirmation_token
TokenToCheck004(r) ==
  IF ~Truthy(r.token_hash) /\ Len(r.referer) > 0
    THEN Or(SearchParam(r.referer, "token_hash"),
            Or(SearchParam(r.referer, "token"),
               SearchParam(r.referer, "confirmation_token")))
    ELSE r.token_hash

tokenToCheck(r) ==
  IF r.handler = "part_003" THEN TokenToCheck003(r) ELSE TokenToCheck004(r)

\* the handler enters the block that checks and marks the token
TracksToken(r) ==
  IF r.handler = "part_003" THEN Truthy(tokenToCheck(r))
  ELSE /\ Truthy(tokenToCheck(r))
       /\ r.type \in {Str("email"), Str("signup")}

\* crypto.createHash('sha256').update(tokenToCheck).digest('hex'): distinct
\* tokens have distinct digests
tokenHash(r) == "sha256(" \o tokenToCheck(r).s \o ")"

\* what an rpc call does: it returns data, returns an error, or rejects
RpcOutcomes == {"ok", "error", "throws"}

\* res.status(200).send(page), recorded with what the calls returned
Served(r, page, check, mark) ==
  [handler |-> r.handler, token |-> tokenToCheck(r).s, status |-> 200,
   page |-> page, check |-> check, mark |-> mark]

\* the requests received so far
Visits == Len(served) + Cardinality({c \in Clients : link[c].pc # "idle"})

\* a request arrives and runs to the first rpc, or to the success page when
\* the handler does not track its token
LinkArrive(c, r) ==
  /\ link[c].pc = "idle"
  /\ Visits < MaxVisits
  /\ IF TracksToken(r)
       THEN /\ link' = [link EXCEPT ![c] = [pc |-> "check", r |-> r]]
            /\ served' = served
       ELSE /\ link' = link
            /\ served' = Append(served, Served(r, "success", "none", "none"))
  /\ UNCHANGED <<usedTokens, storeVars, verifyVars, provisionVars, pageVars>>

\* is_verification_token_used settles
LinkCheckReturns_FailsClosed(c, out) ==
  LET r == link[c].r
      isUsed == tokenHash(r) \in usedTokens
  IN /\ link[c].pc = "check"
     /\ IF out = "ok" /\ ~isUsed
          THEN /\ link' = [link EXCEPT ![c].pc = "mark"]
               /\ served' = served
          ELSE /\ link' = [link EXCEPT ![c] = Waiting]
               /\ served' = Append(served, Served(r, "used", out, "none"))
     /\ UNCHANGED <<usedTokens, storeVars, verifyVars, provisionVars, pageVars>>

LinkCheckReturns(c, out) ==
  LET r == link[c].r
      isUsed == tokenHash(r) \in usedTokens
  IN /\ link[c].pc = "check"
     /\ IF out = "ok" /\ ~isUsed
          THEN /\ link' = [link EXCEPT ![c].pc = "mark"]
               /\ served' = served
          ELSE /\ link' = [link EXCEPT ![c] = Waiting]
               /\ served' = Append(served,
                    IF out = "ok" THEN Served(r, "used", "ok", "none")
                    ELSE Served(r, "success", out, "none"))
     /\ UNCHANGED <<usedTokens, storeVars, verifyVars, provisionVars, pageVars>>

\* mark_verification_token_used settles
LinkMarkReturns(c, out) ==
  LET r == link[c].r
  IN /\ link[c].pc = "mark"
     /\ usedTokens' = IF out = "ok" THEN usedTokens \cup {tokenHash(r)}
                      ELSE usedTokens
     /\ link' = [link EXCEPT ![c] = Waiting]
     /\ served' = Append(served, Served(r, "success", "ok", out))
     /\ UNCHANGED <<storeVars, verifyVars, provisionVars, pageVars>>

LinkToken == "pkce_" \o Rep("7", 16)
OtherToken == "pkce_" \o Rep("3", 16)

LinkRequests ==
  { LinkRequest(h, q[1], q[2], q[3], q[4]) :
      h \in {"part_003", "part_004"},
      q \in { <<Str(LinkToken), Undefined, Str("email"), <<>> >>,
              <<Str(LinkToken), Undefined, Str("recovery"), <<>> >>,
              <<Undefined, Str(OtherToken), Str("signup"), <<>> >>,
              <<Undefined, Undefined, Str("email"),
                << [name |-> "token", value |-> LinkToken] >> >>,
              <<Undefined, Undefined, Undefined, <<>> >> } }

LinkNext ==
  \/ \E c \in Clients, r \in LinkRequests : LinkArrive(c, r)
  \/ \E c \in Clients, out \in RpcOutcomes : LinkCheckReturns(c, out)
  \/ \E c \in Clients, out \in RpcOutcomes : LinkMarkReturns(c, out)

LinkSpec == Init /\ [][LinkNext]_vars

(***************************************************************************)
(* createProfileAfterVerification of unnamed/part_006, called by the       *)
(* webhook for a verification event.  Deliveries run concurrently, each    *)
(* suspended at its select or at its insert.  The users are customers, so  *)
(* the function ends after the insert into users.                          *)
(***************************************************************************)
UserIds == {"user-1", "user-2"}

\* the deliveries received so far
Delivered ==
  Len(inserts) + Cardinality({d \in Deliveries : delivery[d].pc # "idle"})

\* what .select('id').eq('id', user.id).single() gives back: the row, the
\* error PGRST116 when there is none, another error, or a rejection
SelectProfile(rows, user, out) ==
  IF out = "throws" THEN [kind |-> "throws", existingProfile |-> FALSE, code |-> ""]
  ELSE IF out = "error" THEN [kind |-> "error", existingProfile |-> FALSE, code |-> "PGRST301"]
  ELSE IF user \in rows THEN [kind |-> "data", existingProfile |-> TRUE, code |-> ""]
  ELSE [kind |-> "error", existingProfile |-> FALSE, code |-> "PGRST116"]

\* lines 26-40: whether the function goes on to the insert
ProceedsToInsert(sel) ==
  /\ sel.kind # "throws"
  /\ ~sel.existingProfile
  /\ ~(sel.kind = "error" /\ sel.code # "PGRST116")

\* the webhook calls createProfileAfterVerification(user, userType)
DeliveryArrive(d, user) ==
  /\ delivery[d].pc = "idle"
  /\ Delivered < MaxDeliveries
  /\ delivery' = [delivery EXCEPT ![d] = [pc |-> "select", user |-> user]]
  /\ UNCHANGED <<profiles, inserts, storeVars, verifyVars, linkVars, pageVars>>

\* the select settles: the function returns, throws, or issues the insert
SelectProfileReturns(d, out) ==
  /\ delivery[d].pc = "select"
  /\ delivery' =
       IF ProceedsToInsert(SelectProfile(profiles, delivery[d].user, out))
         THEN [delivery EXCEPT ![d].pc = "insert"]
         ELSE [delivery EXCEPT ![d] = NoDelivery]
  /\ inserts' = IF ProceedsToInsert(SelectProfile(profiles, delivery[d].user, out))
                  THEN inserts
                  ELSE Append(inserts, [user |-> delivery[d].user, issued |-> FALSE, existed |-> delivery[d].user \in profiles])
  /\ UNCHANGED <<profiles, storeVars, verifyVars, linkVars, pageVars>>

\* the insert settles; the table may or may not refuse a second row
InsertProfileReturns(d, out) ==
  /\ delivery[d].pc = "insert"
  /\ profiles' = IF out = "ok" THEN profiles \cup {delivery[d].user}
                   ELSE profiles
  /\ inserts' = Append(inserts, [user |-> delivery[d].user, issued |-> TRUE, existed |-> delivery[d].user \in profiles])
  /\ delivery' = [delivery EXCEPT ![d] = NoDelivery]
  /\ UNCHANGED <<storeVars, verifyVars, linkVars, pageVars>>

ProvisionNext ==
  \/ \E d \in Deliveries, user \in UserIds : DeliveryArrive(d, user)
  \/ \E d \in Deliveries, out \in RpcOutcomes : SelectProfileReturns(d, out)
  \/ \E d \in Deliveries, out \in RpcOutcomes : InsertProfileReturns(d, out)

ProvisionSpec == Init /\ [][ProvisionNext]_vars

(***************************************************************************)
(* api/verified.js: the handler awaits getEmailWithRetry, which queries    *)
(* verification_events up to maxRetries times and waits between attempts,  *)
(* and then sends the success page or, after an exception, the fallback    *)
(* page.  A query gives rows, no rows, null, an error, or it rejects; null *)
(* stands for a user_email that is null.                                   *)
(***************************************************************************)
maxRetries == 6

\* Math.min(1000 * Math.pow(1.5, attempt - 1), 5000); the quotient is whole
\* wherever it is below 5000
delayMs(attempt) ==
  Min((1000 * 3 ^ (attempt - 1)) \div 2 ^ (attempt - 1), 5000)

Rows(emails) == [kind |-> "data", rows |-> emails]

QueryResults ==
  { Rows(<<>>),
    Rows(<< Str("ana@example.com") >>),
    Rows(<< Str("luis@example.com"), Str("ana@example.com") >>),
    Rows(<< Undefined >>),
    [kind |-> "null", rows |-> <<>>],
    [kind |-> "error", rows |-> <<>>],
    [kind |-> "throws", rows |-> <<>>] }

\* one iteration of the loop of getEmailWithRetry after its query settled:
\* "return" the email, "wait" and go on, go on to the "next" attempt,
\* return "null" after the loop, or "throw"
Iteration_Unbounded(attempt, res) ==
  IF res.kind = "throws" THEN "next"
  ELSE IF res.kind = "data" /\ Len(res.rows) > 0 THEN "return"
  ELSE "wait"

Iteration(attempt, res) ==
  IF res.kind = "throws"
    THEN IF attempt = maxRetries THEN "throw" ELSE "next"
  ELSE IF res.kind = "data" /\ Len(res.rows) > 0 THEN "return"
  ELSE IF attempt < maxRetries THEN "wait"
  ELSE "null"

\* what getEmailWithRetry hands back when the iteration ends it
Returned_Value(attempt, res) ==
  CASE Iteration(attempt, res) = "return" ->
         [kind |-> "value", value |-> res.rows[1]]
    [] Iteration(attempt, res) = "null" ->
         [kind |-> "value", value |-> Undefined]
    [] Iteration(attempt, res) = "throw" ->
         [kind |-> "throw", value |-> Undefined]
    [] OTHER -> NotReturned

\* res.status(200).send(generateSuccessPage(extractedEmail)), which writes
\* extractedEmail || '' into the page
generateSuccessPage(extractedEmail) ==
  [status |-> 200, contentType |-> "text/html; charset=utf-8",
   page |-> "success",
   email |-> IF Truthy(extractedEmail) THEN extractedEmail.s ELSE ""]

\* res.status(200).send(generateFallbackPage())
generateFallbackPage ==
  [status |-> 200, contentType |-> "text/html; charset=utf-8",
   page |-> "fallback", email |-> ""]

\* the response of the handler once getEmailWithRetry has ended
PageResponse_Fails(returned) ==
  IF returned.kind = "throw"
    THEN [generateFallbackPage EXCEPT !.status = 500]
  ELSE generateSuccessPage(returned.value)

PageResponse(returned) ==
  IF returned.kind = "throw" THEN generateFallbackPage
  ELSE generateSuccessPage(returned.value)

\* a request arrives: the handler runs to the first query
PageArrive ==
  /\ retry.pc \in {"idle", "done"}
  /\ retry' = [pc |-> "query", attempt |-> 1, returned |-> NotReturned]
  /\ trail' = <<>>
  /\ sent' = <<>>
  /\ UNCHANGED <<storeVars, verifyVars, linkVars, provisionVars>>

\* the query of the current attempt settles
PageQueryReturns(res) ==
  LET attempt == retry.attempt
      step == Iteration(attempt, res)
      query == [kind |-> "query", attempt |-> attempt, result |-> res.kind,
                rows |-> Len(res.rows), delay |-> 0,
                email |-> IF Len(res.rows) > 0 THEN res.rows[1] ELSE Undefined]
      wait == [kind |-> "wait", attempt |-> attempt, result |-> "",
               rows |-> 0, delay |-> delayMs(attempt), email |-> Undefined]
  IN /\ retry.pc = "query"
     /\ trail' = IF step = "wait" THEN trail \o <<query, wait>>
                 ELSE Append(trail, query)
     /\ retry' =
          CASE step = "wait" -> [retry EXCEPT !.pc = "wait"]
            [] step = "next" -> [retry EXCEPT !.attempt = attempt + 1]
            [] OTHER -> [retry EXCEPT !.pc = "done",
                           !.returned = Returned_Value(attempt, res)]
     /\ sent' = IF step \in {"wait", "next"} THEN sent
                ELSE Append(sent, PageResponse(Returned_Value(attempt, res)))
     /\ UNCHANGED <<storeVars, verifyVars, linkVars, provisionVars>>

\* the timer of the wait fires: the next attempt issues its query
PageTimerFires ==
  /\ retry.pc = "wait"
  /\ retry' = [retry EXCEPT !.pc = "query", !.attempt = retry.attempt + 1]
  /\ UNCHANGED <<trail, sent, storeVars, verifyVars, linkVars, provisionVars>>

PageNext ==
  \/ PageArrive
  \/ \E res \in QueryResults : PageQueryReturns(res)
  \/ PageTimerFires

PageSpec == Init /\ [][PageNext]_vars

\* every query settles and every timer fires
PageLiveSpec ==
  /\ PageSpec
  /\ WF_vars(\E res \in QueryResults : PageQueryReturns(res))
  /\ WF_vars(PageTimerFires)

(***************************************************************************)
(* Properties of the session store                                         *)
(***************************************************************************)
\* the step in which the server runs the handler for client c's request
Handled(c) == pc[c] = "sent" /\ pc'[c] = "answered"

Other(c) == CHOOSE b \in Clients : b # c

HexChars == {SubSeq(HexDigits, i, i) : i \in 1..16}

\* the five token fields of a response equal those of a create request
SameBundle(response, r) ==
  /\ response.access_token = r.access_token
  /\ response.refresh_token = r.refresh_token
  /\ response.expires_in = r.expires_in
  /\ response.token_type = r.token_type
  /\ response.type = r.type

\* C1: single use.  Whatever puts, takes and sweeps are interleaved, no
\* entry in the store has been returned by a take, and a take that answers
\* 200 returns an entry never returned before and removes it; so every entry
\* a put creates is returned at most once.
SingleUse ==
  /\ [](\A k \in DOMAIN sessionCodeStore : owner[k].taken = 0)
  /\ [][\A c \in Clients :
          (Handled(c) /\ IsTake(req[c]) /\ resp'[c].status = 200)
          => /\ MapHas(sessionCodeStore, req[c].session_code)
             /\ owner[req[c].session_code.s].taken = 0
             /\ ~MapHas(sessionCodeStore', req[c].session_code)]_vars

\* a code was retrieved, a later put returned the same code again, and that
\* second entry is in the store, not yet retrieved
SingleUseWitness ==
  \E c \in Clients :
    /\ pc[c] = "answered" /\ IsTake(req[c]) /\ resp[c].status = 200
    /\ MapHas(sessionCodeStore, req[c].session_code)
    /\ owner[req[c].session_code.s].taken = 0

\* C2: concurrent retrieval.  When two takes of the same code are in flight
\* together and the entry is stored and unexpired, the handler that runs
\* first answers 200; whenever the first of two such takes answered 200 the
\* other one is answered 404.
ConcurrentTake ==
  /\ [](\A a \in Clients :
          (/\ racing[a] /\ resp[a].status = 200
           /\ pc[Other(a)] = "answered")
          => resp[Other(a)].status = 404)
  /\ [][\A a \in Clients :
          (/\ Handled(a)
           /\ IsTake(req[a]) /\ IsTake(req[Other(a)])
           /\ pc[Other(a)] = "sent"
           /\ req[a].session_code = req[Other(a)].session_code
           /\ MapHas(sessionCodeStore, req[a].session_code)
           /\ sessionCodeStore[req[a].session_code.s].expires_at >= now)
          => /\ resp'[a].status = 200
             /\ racing'[a]
             /\ RetrieveStatus(sessionCodeStore', req[Other(a)], now') = 404]_vars

\* both takes of a race were answered: 200 for the first, 404 for the other
ConcurrentTakeWitness ==
  \E a \in Clients :
    /\ racing[a] /\ resp[a].status = 200
    /\ pc[Other(a)] = "answered" /\ resp[Other(a)].status = 404

\* C3: round trip.  A put of a valid bundle answers 200 with a code of 64
\* hex characters and expires_at = time of the put + 300000, and a take of
\* that code right after it answers 200 with the five submitted fields.
RoundTrip ==
  [][\A c \in Clients :
       (Handled(c) /\ req[c] \in ValidCreateRequests)
       => LET code == resp'[c].session_code
              take == Retrieve("POST", TRUE, code)
          IN /\ resp'[c].status = 200
             /\ code.t = "string"
             /\ Len(code.s) = 64
             /\ \A i \in 1..Len(code.s) : SubSeq(code.s, i, i) \in HexChars
             /\ resp'[c].expires_at = now + 300000
             /\ RetrieveStatus(sessionCodeStore', take, now') = 200
             /\ SameBundle(RetrieveResponse(sessionCodeStore', take, now'),
                           req[c])]_vars

\* c1 was answered a code for its bundle and c2 then took that code and
\* received the same bundle
RoundTripWitness ==
  /\ pc["c1"] = "answered" /\ req["c1"] \in ValidCreateRequests
  /\ pc["c2"] = "answered" /\ IsTake(req["c2"])
  /\ req["c2"].session_code = resp["c1"].session_code
  /\ resp["c2"].status = 200
  /\ SameBundle(resp["c2"], req["c1"])

\* C4: expired codes are unusable.  A take answers 200 only if the time of
\* the take is not later than the entry's expires_at (and not later than
\* 300000 ms after the put that created the entry).
ExpiredUnusable ==
  [][\A c \in Clients :
       (Handled(c) /\ IsTake(req[c]) /\ resp'[c].status = 200)
       => /\ MapHas(sessionCodeStore, req[c].session_code)
          /\ now <= sessionCodeStore[req[c].session_code.s].expires_at
          /\ now <= owner[req[c].session_code.s].at + 300000]_vars

\* a code that no take had returned was refused as expired
ExpiredUnusableWitness ==
  /\ \E c \in Clients :
       pc[c] = "answered" /\ IsTake(req[c]) /\ resp[c].status = 410
  /\ \A c \in Clients : resp[c].status # 200

\* C5 as stated: every take of a stored, unretrieved code made later than
\* the TTL after its put answers 410, also when a put has swept the entry.
ExpiredTakeAlways410 ==
  [][\A c \in Clients :
       (/\ Handled(c) /\ IsTake(req[c])
        /\ \/ /\ MapHas(sessionCodeStore, req[c].session_code)
              /\ now > owner[req[c].session_code.s].at + 300000
           \/ /\ req[c].session_code.t = "string"
              /\ req[c].session_code.s \in swept)
       => resp'[c].status = 410]_vars

\* C5 amended: such a take answers 410 and removes the entry when the entry
\* is still stored, and answers 404 when a put has swept it; in both cases
\* the code is absent afterwards and a take repeated at once answers 404.
ExpiredTakeOutcome ==
  [][\A c \in Clients :
       (Handled(c) /\ IsTake(req[c]))
       => /\ (/\ MapHas(sessionCodeStore, req[c].session_code)
              /\ now > owner[req[c].session_code.s].at + 300000)
             => /\ resp'[c].status = 410
                /\ ~MapHas(sessionCodeStore', req[c].session_code)
                /\ RetrieveStatus(sessionCodeStore', req[c], now') = 404
          /\ (/\ req[c].session_code.t = "string"
              /\ req[c].session_code.s \in swept)
             => /\ resp'[c].status = 404
                /\ ~MapHas(sessionCodeStore', req[c].session_code)
                /\ RetrieveStatus(sessionCodeStore', req[c], now') = 404]_vars

\* one client was answered 410 for a code and the other, after it, 404
ExpiredTakeWitness ==
  \E a \in Clients :
    /\ pc[a] = "answered" /\ IsTake(req[a]) /\ resp[a].status = 410
    /\ pc[Other(a)] = "answered" /\ IsTake(req[Other(a)])
    /\ req[Other(a)].session_code = req[a].session_code
    /\ resp[Other(a)].status = 404

\* C6 as stated: after a take of any code was answered, the next take of
\* the same code answers 404.  (c1 sends every put, so none runs between the
\* answer to c1's take and the handling of c2's.)
SecondTakeNotFound ==
  [][(/\ pc["c1"] = "answered" /\ IsTake(req["c1"])
      /\ Handled("c2") /\ IsTake(req["c2"])
      /\ req["c2"].session_code = req["c1"].session_code)
     => resp'["c2"].status = 404]_vars

\* C6 amended: the same, for codes of exactly 64 characters
SecondTakeNotFoundWellFormed ==
  [][(/\ pc["c1"] = "answered" /\ IsTake(req["c1"])
      /\ Handled("c2") /\ IsTake(req["c2"])
      /\ req["c2"].session_code = req["c1"].session_code
      /\ LengthOf(req["c2"].session_code) = Num(64))
     => resp'["c2"].status = 404]_vars

\* a code that was never stored was taken twice: 404 both times
SecondTakeWitness ==
  /\ pc["c1"] = "answered" /\ IsTake(req["c1"]) /\ resp["c1"].status = 404
  /\ pc["c2"] = "answered" /\ IsTake(req["c2"]) /\ resp["c2"].status = 404
  /\ req["c2"].session_code = req["c1"].session_code
  /\ ~racing["c1"] /\ ~racing["c2"]
  /\ sessionCodeStore = EmptyMap

\* C7: put validation.  A POST to create-secure-session whose access_token
\* is not a string of at least 50 characters, or whose refresh_token is not
\* a string of at least 8 characters (absent and empty included), answers
\* 400, returns no code and leaves the store as it was.
PutValidation ==
  [][\A c \in Clients :
       (/\ Handled(c) /\ req[c].ep = "create" /\ req[c].method = "POST"
        /\ \/ req[c].access_token.t # "string"
           \/ Len(req[c].access_token.s) < 50
           \/ req[c].refresh_token.t # "string"
           \/ Len(req[c].refresh_token.s) < 8)
       => /\ resp'[c].status = 400
          /\ resp'[c].session_code = Undefined
          /\ sessionCodeStore' = sessionCodeStore]_vars

\* C8: take format validation.  A POST to retrieve-session whose
\* session_code is missing or does not have length 64 answers 400 and
\* leaves the store as it was.
TakeFormatValidation ==
  [][\A c \in Clients :
       (/\ Handled(c) /\ req[c].ep = "retrieve" /\ req[c].method = "POST"
        /\ \/ req[c].session_code = Undefined
           \/ LengthOf(req[c].session_code) # Num(64))
       => /\ resp'[c].status = 400
          /\ sessionCodeStore' = sessionCodeStore]_vars

\* C9: retrieval outcome mapping.  Every POST to retrieve-session answers
\* 400 if the code is missing or not 64 long, else 404 if the store has no
\* entry for it, else 410 if the entry's expires_at is before now, else 200
\* with the stored bundle.
RetrievalOutcome ==
  [][\A c \in Clients :
       (Handled(c) /\ req[c].ep = "retrieve" /\ req[c].method = "POST")
       => LET code == req[c].session_code
              stored == code.t = "string" /\ code.s \in DOMAIN sessionCodeStore
          IN IF code = Undefined \/ LengthOf(code) # Num(64)
               THEN resp'[c].status = 400
             ELSE IF ~stored
               THEN resp'[c].status = 404
             ELSE IF sessionCodeStore[code.s].expires_at < now
               THEN resp'[c].status = 410
             ELSE /\ resp'[c].status = 200
                  /\ SameBundle(resp'[c], sessionCodeStore[code.s])]_vars

\* C10: fixed TTL and immutability.  Every stored entry has expires_at equal
\* to the time of the put that created it plus 300000, and no put, take or
\* sweep changes a field of a stored entry: the value under a code that
\* stays in the store is the same after every step, except the step of a
\* put that returns this very code, which stores a new entry under it.
FixedTTLImmutable ==
  /\ [](\A k \in DOMAIN sessionCodeStore :
          sessionCodeStore[k].expires_at = owner[k].at + 300000)
  /\ [][\A k \in DOMAIN sessionCodeStore \cap DOMAIN sessionCodeStore' :
          \/ sessionCodeStore'[k] = sessionCodeStore[k]
          \/ \E c \in Clients :
               /\ Handled(c) /\ req[c].ep = "create"
               /\ resp'[c].status = 200
               /\ resp'[c].session_code = Str(k)
               /\ owner'[k] = [at |-> now, taken |-> 0]]_vars

\* an entry is still stored at the last instant of its validity, after a
\* take of another code returned that code's bundle and a take was refused
FixedTTLWitness ==
  /\ \E k \in DOMAIN sessionCodeStore :
       /\ now = sessionCodeStore[k].expires_at
       /\ \E c \in Clients :
            /\ pc[c] = "answered" /\ IsTake(req[c]) /\ resp[c].status = 200
            /\ req[c].session_code.s # k
  /\ \E c \in Clients :
       pc[c] = "answered" /\ IsTake(req[c]) /\ resp[c].status = 404

\* a put: a POST to create-secure-session that carries a JSON object
IsPut(r) == r.ep = "create" /\ r.method = "POST" /\ r.hasBody

\* C11 as stated: after any put has returned, accepted or rejected, the
\* store holds no entry whose expires_at is earlier than the time of the put.
SweepOnEveryPut ==
  [][\A c \in Clients :
       (Handled(c) /\ IsPut(req[c]))
       => \A k \in DOMAIN sessionCodeStore' :
            sessionCodeStore'[k].expires_at >= now]_vars

\* C11 amended: after a put that returned a code (200), the store holds no
\* entry whose expires_at is earlier than the time of the put.
SweepOnAcceptedPut ==
  [][\A c \in Clients :
       (Handled(c) /\ IsPut(req[c]) /\ resp'[c].status = 200)
       => \A k \in DOMAIN sessionCodeStore' :
            sessionCodeStore'[k].expires_at >= now]_vars

\* a put returned a code after the clock passed the expiry of an entry, and
\* its sweep removed that entry: only the new entry is stored
SweepOnPutWitness ==
  /\ pc["c1"] = "answered" /\ IsPut(req["c1"]) /\ resp["c1"].status = 200
  /\ swept # {}
  /\ DOMAIN sessionCodeStore = {resp["c1"].session_code.s}
  /\ pc["c2"] = "idle"

\* the entry under k before the step is expired and is still there after it
ExpiredSurvives(k) ==
  /\ k \in DOMAIN sessionCodeStore
  /\ sessionCodeStore[k].expires_at < now
  /\ k \in DOMAIN sessionCodeStore'
  /\ sessionCodeStore'[k] = sessionCodeStore[k]

\* C12 as stated: after the first put or take, for any code, that follows
\* the expiry of an entry, the expired entry is no longer in the store.
LazyEvictionAnyAccess ==
  [][\A c \in Clients :
       (Handled(c) /\ (IsPut(req[c]) \/ IsTake(req[c])))
       => \A k \in DOMAIN sessionCodeStore : ~ExpiredSurvives(k)]_vars

\* C12 amended: after the first put that returns a code, no expired entry is
\* in the store any more; after the first take of a code whose entry has
\* expired, that entry is no longer in the store.
LazyEvictionOwnAccess ==
  [][\A c \in Clients :
       /\ (Handled(c) /\ IsPut(req[c]) /\ resp'[c].status = 200)
          => \A k \in DOMAIN sessionCodeStore : ~ExpiredSurvives(k)
       /\ (Handled(c) /\ IsTake(req[c]) /\ req[c].session_code.t = "string")
          => ~ExpiredSurvives(req[c].session_code.s)]_vars

\* both evictions happened: a take found its entry expired and removed it,
\* and a later put swept another expired entry
LazyEvictionWitness ==
  /\ pc["c2"] = "answered" /\ IsTake(req["c2"]) /\ resp["c2"].status = 410
  /\ pc["c1"] = "answered" /\ IsPut(req["c1"]) /\ resp["c1"].status = 200
  /\ swept # {}
  /\ req["c2"].session_code.s \notin swept

\* C13: code uniqueness.  The code a put returns is not a key of the store
\* at the time of the put, so the put replaces no stored bundle.
CodeUnique ==
  [][\A c \in Clients :
       (Handled(c) /\ IsPut(req[c]) /\ resp'[c].status = 200)
       => /\ resp'[c].session_code.s \notin DOMAIN sessionCodeStore
          /\ \A k \in DOMAIN sessionCodeStore \cap DOMAIN sessionCodeStore' :
               sessionCodeStore'[k] = sessionCodeStore[k]]_vars

(***************************************************************************)
(* Properties of the verify handlers and of the webhook                    *)
(***************************************************************************)
\* the redirects among the responses sent for the current request
Redirects == {i \in 1..Len(vres) : vres[i].kind = "redirect"}

IsDeepLink(redirect) == SubSeq(redirect.base, 1, Min(9, Len(redirect.base))) = "manito://"

\* the handler has returned from verifyOtp with a session
Exchanged ==
  /\ Called("verifyOtp")
  /\ Returned("verifyOtp").kind = "data"
  /\ Returned("verifyOtp").session.present

\* the one response of a finished request is the success redirect
SuccessRedirect ==
  /\ Len(vres) = 1
  /\ vres[1].status = 302 /\ vres[1].kind = "redirect"
  /\ HasParam(vres[1].params, "type")
  /\ ParamValue(vres[1].params, "type") = "success"
  /\ ~HasParam(vres[1].params, "error")

\* C14: provisioning is non-fatal.  In the relay, whatever the profile call
\* returns or throws, the handler goes on to the session-code creation
\* without responding, and the request ends with the success redirect.  In
\* the webhook, whatever createProfileAfterVerification returns or throws,
\* the handler goes on to insert the verification event without responding,
\* and answers 200 whenever the insert and the cleanup return.
ProvisioningNonFatal ==
  /\ [][(vpc = "rpc" /\ vpc' # "rpc")
        => (vpc' = "fetch" /\ vres' = vres /\ vres = <<>>)]_vars
  /\ [][(vpc = "createProfile" /\ vpc' # "createProfile")
        => (vpc' = "insertEvent" /\ vres' = vres /\ vres = <<>>)]_vars
  /\ []((vreq.handler = "relay" /\ vpc = "done" /\ Exchanged)
        => /\ SuccessRedirect
           /\ \A p \in ProfileOutcomes :
                RelayAfterProfile(vreq, Returned("verifyOtp"), p)
                  = Await("fetch"))
  /\ []((vreq.handler = "webhook" /\ vpc = "done" /\ Called("createProfile"))
        => /\ Called("insertEvent")
           /\ (/\ Returned("insertEvent") # "throws"
               /\ Called("cleanup") => Returned("cleanup") # "throws")
              => vres = <<WebhookProcessed>>)

\* the relay's profile call threw and the request ended with the success
\* redirect that carries a session code
ProvisioningNonFatalWitness ==
  /\ vreq.handler = "relay" /\ vpc = "done"
  /\ Called("rpc") /\ Returned("rpc") = "throws"
  /\ SuccessRedirect
  /\ HasParam(vres[1].params, "session_code")

\* C15: handoff fallback.  After verifyOtp returned a session the relay ends
\* with one type=success redirect.  When the create-secure-session call
\* answered 200 the redirect carries the session_code of that answer, which
\* is a key of the store, and no tokens; when the call answered another
\* status or the fetch rejected, it carries the session's access_token and
\* refresh_token and no session_code.
HandoffFallback ==
  []((vreq.handler = "relay" /\ vpc = "done" /\ Exchanged)
     => /\ SuccessRedirect
        /\ Called("fetch")
        /\ LET c == Returned("fetch")
               session == Returned("verifyOtp").session
               params == vres[1].params
           IN IF c.status = 200
                THEN /\ HasParam(params, "session_code")
                     /\ ParamValue(params, "session_code") = c.session_code.s
                     /\ MapHas(sessionCodeStore, c.session_code)
                     /\ ~HasParam(params, "access_token")
                     /\ ~HasParam(params, "refresh_token")
                ELSE /\ ~HasParam(params, "session_code")
                     /\ HasParam(params, "access_token")
                     /\ ParamValue(params, "access_token")
                          = session.access_token.s
                     /\ HasParam(params, "refresh_token")
                     /\ ParamValue(params, "refresh_token")
                          = session.refresh_token.s)

\* the create handler rejected the posted tokens with 400 and the relay
\* redirected with the tokens themselves
HandoffFallbackWitness ==
  /\ vreq.handler = "relay" /\ vpc = "done" /\ Exchanged
  /\ Called("fetch") /\ Returned("fetch").status = 400
  /\ SuccessRedirect
  /\ HasParam(vres[1].params, "access_token")
  /\ sessionCodeStore = EmptyMap

\* the messages the handlers themselves word
FixedMessages ==
  { "Código de verificación inválido o expirado",
    "El enlace de verificación ha expirado. Solicita uno nuevo.",
    "El enlace de verificación es inválido. Verifica que hayas copiado la URL completa.",
    "Este email ya ha sido verificado anteriormente.",
    "Error al verificar el email",
    "No se pudo crear la sesión. Intenta iniciar sesión manualmente.",
    "Error interno del servidor. Intenta nuevamente más tarde.",
    "Missing verification parameters",
    "Internal verification error",
    "No session created after verification",
    "Verification failed - no session created",
    "Demasiados intentos. Espera un momento antes de intentar nuevamente.",
    "Error en el servidor. El enlace puede haber expirado o ser inválido.",
    "Enlace de verificación inválido. Verifica que hayas copiado la URL completa.",
    "Acceso denegado. El enlace puede haber expirado.",
    "Error desconocido al verificar el email",
    "Acceso no autorizado",
    "Enlace de verificación inválido o corrupto",
    "Estado de verificación inesperado. Contacta al soporte técnico.",
    "El enlace de verificación ha expirado o es inválido. Solicita uno nuevo.",
    "Este email ya ha sido verificado. Puedes iniciar sesión normalmente.",
    "No se encontró el usuario. Verifica que te hayas registrado correctamente.",
    "Verificación exitosa pero no se pudo crear la sesión. Intenta iniciar sesión manualmente.",
    "Configuración del servidor incompleta. Contacta al soporte técnico.",
    "invalid_request" }

\* the provider failed the request: verifyOtp returned an error, or the
\* provider redirected here with ?error=
ProviderFailed ==
  \/ Called("verifyOtp") /\ Returned("verifyOtp").kind = "error"
  \/ Truthy(vreq.q.error)

\* C16: no raw provider text reaches the user.  Whenever the provider
\* failed the request, the error value of the redirect is one of the fixed
\* messages of the handlers and contains neither the message of the
\* verifyOtp error nor the error_description the provider sent.
NoRawProviderText ==
  [](IsVerify(vreq) /\ vreq.method = "GET" /\ vpc = "done" /\ ProviderFailed
     => \A i \in Redirects :
          HasParam(vres[i].params, "error")
          => /\ ParamValue(vres[i].params, "error") \in FixedMessages
             /\ Called("verifyOtp")
                => ~Includes(ParamValue(vres[i].params, "error"),
                             Returned("verifyOtp").message)
             /\ Truthy(vreq.q.error_description)
                => ParamValue(vres[i].params, "error")
                     # sanitizeParam(vreq.q.error_description).s)

\* C17: always a redirect.  Every GET to a verify handler ends with exactly
\* one response, a 302 redirect, on every path.
AlwaysRedirect ==
  [](IsVerify(vreq) /\ vreq.method = "GET" /\ vpc = "done"
     => /\ Len(vres) = 1
        /\ vres[1].status = 302
        /\ vres[1].kind = "redirect")

\* C18: token placement.  In every redirect to a web target a result of
\* type error is in the query component, and no query component carries
\* access_token or refresh_token.
TokenPlacement ==
  [](IsVerify(vreq)
     => \A i \in Redirects :
          ~IsDeepLink(vres[i])
          => /\ (/\ HasParam(vres[i].params, "type")
                 /\ ParamValue(vres[i].params, "type") = "error")
                => vres[i].sep = "?"
             /\ vres[i].sep = "?"
                => /\ ~HasParam(vres[i].params, "access_token")
                   /\ ~HasParam(vres[i].params, "refresh_token"))

\* C19: routing rule.  For every outcome the redirect is a manito:// deep
\* link when the user agent carries a marker of the app (Expo, ReactNative,
\* manito) and a web URL when it carries none of the markers a handler
\* tests (those three and Mobile) or is missing.
RoutingRule ==
  [](IsVerify(vreq) /\ vreq.method = "GET"
     => \A i \in Redirects :
          /\ isMobileApp(UserAgent(vreq)) => IsDeepLink(vres[i])
          /\ ~isMobileAppRequest(UserAgent(vreq)) => ~IsDeepLink(vres[i]))

\* the characters sanitizeParam is to remove: markup characters and the
\* control characters
ControlChars == {ch \in Alphabet : CharCode[ch] < 32 \/ CharCode[ch] = 127}
Forbidden == {"<", ">", "\"", "'", "&"} \cup ControlChars

\* the tokens the handler received, from the query or from the provider
ReceivedTokens(name) ==
  {vreq.q[name].s}
  \cup (IF Called("verifyOtp") /\ Returned("verifyOtp").kind = "data"
          THEN {Returned("verifyOtp").session[name].s}
          ELSE {})

\* C20: sanitization.  In every redirect of redirectToFrontend the values
\* of type, error, error_code, token_type and flow contain none of
\* < > " ' & and no control character and are at most 200 characters long,
\* and access_token and refresh_token are the received values.
Sanitization ==
  [](vreq.handler \in {"new", "pkce"}
     => \A i \in Redirects :
          \A j \in 1..Len(vres[i].params) :
            LET name == vres[i].params[j].name
                value == vres[i].params[j].value
            IN /\ name \in {"type", "error", "error_code", "token_type",
                            "flow"}
                  => /\ Len(value) <= 200
                     /\ \A k \in 1..Len(value) :
                          CharAt(value, k) \notin Forbidden
               /\ name \in {"access_token", "refresh_token"}
                  => value \in ReceivedTokens(name))

\* C21: no indefinite blocking.  Every verify request that has called the
\* provider is eventually answered, even when the provider call never
\* settles.
NoIndefiniteBlocking ==
  (IsVerify(vreq) /\ vpc = "verifyOtp") ~> (vpc = "done" /\ Len(vres) = 1)

\* C22: success only after the provider exchange.  A redirect of type
\* success, or one that carries a session code or tokens, is sent only in a
\* request in which verifyOtp was called and returned a session.
SuccessOnlyAfterExchange ==
  [](IsVerify(vreq)
     => \A i \in Redirects :
          (\/ /\ HasParam(vres[i].params, "type")
              /\ ParamValue(vres[i].params, "type") = "success"
           \/ HasParam(vres[i].params, "session_code")
           \/ HasParam(vres[i].params, "access_token"))
          => Exchanged)

\* the webhook has started the insert of a verification event or the
\* provisioning of a profile
Recorded == Called("insertEvent") \/ Called("createProfile")

\* C23: the webhook records only the transition.  An event is stored, or a
\* profile provisioned, only for an update in which email_confirmed_at goes
\* from absent to present, in both event formats.
RecordsOnlyTransition ==
  [](IsWebhook(vreq) /\ Recorded
     => /\ vreq.type \in {"UPDATE", "auth.user.updated"}
        /\ ~vreq.old_confirmed /\ vreq.confirmed)

RateIPs == {ClientIP, OtherIP}

HasRecordOf(store, h, ip) == ("rate_limit_" \o ip) \in DOMAIN store[h]

RecordOf(store, h, ip) == store[h]["rate_limit_" \o ip]

HasRecord(h, ip) == HasRecordOf(rateLimitStore, h, ip)

Record(h, ip) == RecordOf(rateLimitStore, h, ip)

\* how many requests of ip the handler h admitted at time t, in log
AdmittedOf(log, h, ip, t) ==
  LET a == [handler |-> h, ip |-> ip, at |-> t]
  IN IF a \in DOMAIN log THEN log[a] ELSE 0

AdmittedAt(h, ip, t) == AdmittedOf(admissions, h, ip, t)

\* how many it admitted at the times of T
RECURSIVE AdmittedIn(_, _, _)
AdmittedIn(h, ip, T) ==
  IF T = {} THEN 0
  ELSE LET t == CHOOSE x \in T : TRUE
       IN AdmittedAt(h, ip, t) + AdmittedIn(h, ip, T \ {t})

\* a step in which a request arrives
ArriveStep == vpc \in {"idle", "done"} /\ now' = now

\* the request that arrives in this step goes through checkRateLimit
Limited == vreq'.handler \in RateLimitedHandlers /\ vreq'.method = "GET"

\* C26 as stated: for each client IP at most 5 requests are admitted in any
\* span of 60000 ms; here the spans that end at the present instant.
SpanLimit ==
  [](\A h \in RateLimitedHandlers : \A ip \in RateIPs :
       AdmittedIn(h, ip, {t \in RateTimes : t > now - 60000 /\ t <= now})
         <= 5)

\* C26 amended: for each client IP at most 5 requests are admitted in any
\* one window, which runs from the request that opened it to its resetTime,
\* 60000 ms later: the stored count is the number of requests admitted in
\* the window and is at most 5, a request that arrives in a window with 5
\* admitted is answered with the rate-limit redirect and not admitted, and
\* every other request is admitted.
WindowLimit ==
  /\ [](\A h \in RateLimitedHandlers : \A ip \in RateIPs :
          (HasRecord(h, ip) /\ now <= Record(h, ip).resetTime)
          => /\ Record(h, ip).count <= 5
             /\ Record(h, ip).count
                  = AdmittedIn(h, ip,
                      {t \in RateTimes :
                         /\ t >= Record(h, ip).resetTime - 60000
                         /\ t <= now}))
  /\ [][(ArriveStep /\ Limited)
        => LET h == vreq'.handler
               ip == vreq'.ip
               full == /\ HasRecord(h, ip)
                       /\ now <= Record(h, ip).resetTime
                       /\ Record(h, ip).count = 5
           IN IF full
                THEN /\ vres' = <<RateLimited>>
                     /\ AdmittedOf(admissions', h, ip, now)
                          = AdmittedAt(h, ip, now)
                ELSE /\ vres' # <<RateLimited>>
                     /\ AdmittedOf(admissions', h, ip, now)
                          = AdmittedAt(h, ip, now) + 1
       ]_vars

\* the sixth request of a window was answered with the rate-limit redirect
WindowLimitWitness ==
  /\ vreq.handler = "new" /\ vreq.ip = ClientIP /\ vpc = "done"
  /\ vres = <<RateLimited>>
  /\ HasRecord("new", ClientIP)
  /\ Record("new", ClientIP).count = 5
  /\ now <= Record("new", ClientIP).resetTime
  /\ AdmittedIn("new", ClientIP, RateTimes) = 5

\* C27: rate counter invariant.  Every stored count is between 0 and 5, a
\* denied call leaves the count and the resetTime of its client IP as they
\* were, and a call leaves the records of every other client IP, and
\* whether they exist, unchanged.
RateCounterInvariant ==
  /\ [](\A h \in RateLimitedHandlers : \A ip \in RateIPs :
          HasRecord(h, ip)
          => Record(h, ip).count >= 0 /\ Record(h, ip).count <= 5)
  /\ [][(ArriveStep /\ Limited /\ vres' = <<RateLimited>>)
        => /\ HasRecord(vreq'.handler, vreq'.ip)
           /\ RecordOf(rateLimitStore', vreq'.handler, vreq'.ip)
                = Record(vreq'.handler, vreq'.ip)]_vars
  /\ [][ArriveStep
        => \A h \in RateLimitedHandlers : \A ip \in RateIPs :
             (h # vreq'.handler \/ ip # vreq'.ip)
             => /\ HasRecordOf(rateLimitStore', h, ip) = HasRecord(h, ip)
                /\ HasRecord(h, ip)
                   => RecordOf(rateLimitStore', h, ip) = Record(h, ip)]_vars

\* a call for one client IP was denied while the other has its own record
RateCounterWitness ==
  /\ vreq.handler = "new" /\ vreq.ip = ClientIP /\ vpc = "done"
  /\ vres = <<RateLimited>>
  /\ Record("new", ClientIP).count = 5
  /\ HasRecord("new", OtherIP)
  /\ Record("new", OtherIP).count = 1
  /\ Record("new", OtherIP).resetTime # Record("new", ClientIP).resetTime

\* C28: rate limit recovery.  A request of a client IP whose window is full
\* that arrives at a time strictly greater than the window's resetTime is
\* admitted and opens a new window with count = 1 and resetTime = now +
\* 60000.
RateLimitRecovery ==
  [][(/\ ArriveStep /\ Limited
      /\ HasRecord(vreq'.handler, vreq'.ip)
      /\ Record(vreq'.handler, vreq'.ip).count = 5
      /\ now > Record(vreq'.handler, vreq'.ip).resetTime)
     => /\ vres' # <<RateLimited>>
        /\ RecordOf(rateLimitStore', vreq'.handler, vreq'.ip)
             = [count |-> 1, resetTime |-> now + 60000]]_vars

\* the window opened at 0 was filled at its resetTime 60000: four requests
\* were admitted then, and the first request after it opened a new window
RateLimitRecoveryWitness ==
  /\ vreq.handler = "new" /\ vreq.ip = ClientIP
  /\ now = 60001
  /\ AdmittedAt("new", ClientIP, 60000) = 4
  /\ AdmittedAt("new", ClientIP, 60001) = 1
  /\ Record("new", ClientIP) = [count |-> 1, resetTime |-> 120001]
  /\ vres # <<RateLimited>>

\* the verifyOtp calls of the current request
ProviderCalls == SelectSeq(calls, LAMBDA c : c.name = "verifyOtp")

\* C29: guarded provider call.  In verify-email-new.js verifyOtp is called
\* at most once per request, and a request that arrives calls it only when
\* it is a GET that checkRateLimit admitted, with no error parameter, not
\* with both access_token and refresh_token, and with a token_hash of at
\* least 10 characters; a request answered with the rate-limit redirect has
\* made no call.
GuardedProviderCall ==
  /\ [](vreq.handler = "new"
        => /\ Len(ProviderCalls) <= 1
           /\ vpc = "verifyOtp" => calls = <<>>
           /\ vres = <<RateLimited>> => calls = <<>> /\ vpc = "done")
  /\ [][(ArriveStep /\ vreq'.handler = "new" /\ vpc' = "verifyOtp")
        => /\ vreq'.method = "GET"
           /\ AdmittedOf(admissions', "new", vreq'.ip, now)
                = AdmittedAt("new", vreq'.ip, now) + 1
           /\ ~Truthy(vreq'.q.error)
           /\ ~(Truthy(vreq'.q.access_token) /\ Truthy(vreq'.q.refresh_token))
           /\ TypeOf(vreq'.q.token_hash) = "string"
           /\ Len(vreq'.q.token_hash.s) >= 10]_vars
  /\ [][(vpc # "verifyOtp") => (calls' = calls \/ calls' = <<>>)]_vars

\* a request with a well-formed token_hash was denied by the rate limiter
\* and answered without a call to the provider
GuardedProviderCallWitness ==
  /\ vreq.handler = "new" /\ vreq.method = "GET" /\ vpc = "done"
  /\ vreq.q.token_hash = TokenHash
  /\ ~Truthy(vreq.q.error)
  /\ vres = <<RateLimited>>
  /\ calls = <<>>

\* ------------------------------------------------------------------
\* Classification of provider errors
\* ------------------------------------------------------------------

\* the four user messages of the verifyError branch, in order of precedence
ExpiredOrInvalid ==
  "El enlace de verificación ha expirado o es inválido. Solicita uno nuevo."
AlreadyVerified ==
  "Este email ya ha sido verificado. Puedes iniciar sesión normalmente."
UserNotFound ==
  "No se encontró el usuario. Verifica que te hayas registrado correctamente."
GenericFailure == "Error al verificar el email"

\* the verify handler answered a failed exchange
ExchangeFailed ==
  /\ IsVerify(vreq) /\ vreq.handler = "new" /\ vpc = "done"
  /\ Called("verifyOtp") /\ Returned("verifyOtp").kind = "error"

\* C25: provider error classification.  When verifyOtp returned an error,
\* the handler answers with one redirect whose error value is chosen from
\* the lower-cased provider message by first match: "expired" or "invalid"
\* gives the expired-or-invalid message, else "already" or "confirmed" the
\* already-verified message, else "not found" the user-not-found message,
\* else the generic message; the four messages are pairwise distinct.
ErrorClassification ==
  /\ Cardinality({ExpiredOrInvalid, AlreadyVerified, UserNotFound,
                  GenericFailure}) = 4
  /\ ExchangeFailed
     => LET m == toLowerCase(Returned("verifyOtp").message)
            has(w) == Includes(m, w)
        IN /\ Len(vres) = 1
           /\ vres[1].kind = "redirect"
           /\ HasParam(vres[1].params, "error")
           /\ ParamValue(vres[1].params, "error") =
                IF has("expired") \/ has("invalid") THEN ExpiredOrInvalid
                ELSE IF has("already") \/ has("confirmed") THEN AlreadyVerified
                ELSE IF has("not found") THEN UserNotFound
                ELSE GenericFailure

\* a message in capitals that names both "already" and "expired" was
\* answered with the expired-or-invalid message
ErrorClassificationWitness ==
  /\ ExchangeFailed
  /\ Returned("verifyOtp").message = "Email already confirmed: link EXPIRED"
  /\ ParamValue(vres[1].params, "error") = ExpiredOrInvalid

\* ------------------------------------------------------------------
\* Single-use verification links
\* ------------------------------------------------------------------

\* the requests that bore the token and whose token the handler checked
\* and, when it was unused, marked, without an error from the database
PagesFor(token) ==
  {i \in 1..Len(served) : /\ served[i].token = token
                          /\ served[i].check = "ok"
                          /\ served[i].mark \in {"ok", "none"}}

\* C24: single-use verification links.  For every verification token, at
\* most one request bearing it is served the success page, and every other
\* request bearing it is served the "Enlace Ya Utilizado" page.  Stated
\* for the requests whose database calls all succeeded, which is the case
\* most favourable to the handlers.
SingleUseLinks ==
  \A token \in {LinkToken, OtherToken} :
    /\ Cardinality({i \in PagesFor(token) : served[i].page = "success"}) <= 1
    /\ \A i \in PagesFor(token) : served[i].page \in {"success", "used"}

\* C34: token tracking fails open.  A request whose
\* is_verification_token_used or mark_verification_token_used call returned
\* an error or rejected is served the success page with status 200; the "Enlace Ya
\* Utilizado" page is served only after a check that succeeded and found the
\* token's hash stored.
TrackingFailsOpen ==
  \A i \in 1..Len(served) :
    /\ served[i].check \in {"error", "throws"}
       => served[i].page = "success" /\ served[i].status = 200
    /\ served[i].mark \in {"error", "throws"}
       => served[i].page = "success" /\ served[i].status = 200
    /\ served[i].page = "used"
       => /\ served[i].check = "ok"
          /\ "sha256(" \o served[i].token \o ")" \in usedTokens

\* a check that returned an error and a mark that rejected were both
\* followed by the success page
TrackingFailsOpenWitness ==
  /\ Len(served) = 2
  /\ served[1].check = "error" /\ served[1].page = "success"
  /\ served[2].check = "ok" /\ served[2].mark = "throws"
  /\ served[2].page = "success"

\* ------------------------------------------------------------------
\* Profile provisioning
\* ------------------------------------------------------------------

\* the profile inserts issued for the user, settled or in flight
InsertsFor(user) ==
  Cardinality({i \in 1..Len(inserts) :
                 inserts[i].user = user /\ inserts[i].issued})
  + Cardinality({d \in Deliveries :
                   delivery[d].pc = "insert" /\ delivery[d].user = user})

\* C31: profile provisioning is idempotent per user.  No profile insert
\* reaches the table for a user who already has a row, and for every user
\* at most one profile insert is issued, whatever the order and
\* interleaving of the webhook deliveries.
ProvisioningIdempotent ==
  /\ \A i \in 1..Len(inserts) : inserts[i].issued => ~inserts[i].existed
  /\ \A user \in UserIds : InsertsFor(user) <= 1

\* ------------------------------------------------------------------
\* Length of the redirect
\* ------------------------------------------------------------------

\* verify-email-new.js answered a verification whose session the provider
\* returned with the given access token
AnsweredSession(session) ==
  /\ IsVerify(vreq) /\ vreq.handler = "new" /\ vpc = "done"
  /\ Called("verifyOtp") /\ Returned("verifyOtp").kind = "data"
  /\ Returned("verifyOtp").user
  /\ Returned("verifyOtp").session = session

\* C35: redirect length guard.  No redirect verify-email-new.js sends is
\* longer than 2048 characters; when the redirect built from the
\* provider's session would be longer, the handler sends
\* /?error=invalid_request&type=error, which carries no token; a redirect
\* of exactly 2048 characters is sent as built.
RedirectLengthGuard ==
  /\ IsVerify(vreq) /\ vreq.handler = "new"
     => \A i \in Redirects : Len(Url(vres[i])) <= 2048
  /\ AnsweredSession(OversizedSession)
     => /\ Len(vres) = 1
        /\ Url(vres[1]) = "/?error=invalid_request&type=error"
        /\ ~HasParam(vres[1].params, "access_token")
        /\ ~HasParam(vres[1].params, "refresh_token")
  /\ AnsweredSession(BoundarySession)
     => /\ Len(vres) = 1
        /\ Len(Url(vres[1])) = 2048
        /\ ParamValue(vres[1].params, "access_token")
             = BoundarySession.access_token.s

\* the oversized redirect was replaced
RedirectLengthGuardWitness ==
  /\ AnsweredSession(OversizedSession)
  /\ Url(vres[1]) = "/?error=invalid_request&type=error"

\* ------------------------------------------------------------------
\* Frame conditions of the session store
\* ------------------------------------------------------------------

\* the codes whose entry the step removed
Removed_Codes == DOMAIN sessionCodeStore \ DOMAIN sessionCodeStore'

\* C36: store frame conditions.  A request answered 405, 400 or 404 leaves
\* the session store unchanged; a take answered 410 or 200 removes the
\* entry of the requested code and nothing else; the sweep of a put removes
\* only entries with expires_at < now; and so an entry that has not been
\* retrieved is still stored, and a take of its code answers 200, at every
\* time up to and including its expires_at.
StoreFrame ==
  /\ [][\A c \in Clients :
          Handled(c)
          => /\ resp'[c].status \in {405, 400, 404}
                => sessionCodeStore' = sessionCodeStore
             /\ IsTake(req[c]) /\ resp'[c].status \in {410, 200}
                => /\ Removed_Codes = {req[c].session_code.s}
                   /\ \A k \in DOMAIN sessionCodeStore' :
                        /\ k \in DOMAIN sessionCodeStore
                        /\ sessionCodeStore'[k] = sessionCodeStore[k]
             /\ req[c].ep = "create" /\ resp'[c].status = 200
                => \A k \in Removed_Codes :
                     sessionCodeStore[k].expires_at < now']_vars
  /\ [][\A k \in DOMAIN sessionCodeStore :
          /\ now' <= sessionCodeStore[k].expires_at
          /\ ~\E c \in Clients :
                /\ Handled(c) /\ IsTake(req[c])
                /\ req[c].session_code.s = k
                /\ resp'[c].status \in {410, 200}
          => k \in DOMAIN sessionCodeStore']_vars
  /\ [](\A k \in DOMAIN sessionCodeStore :
          now <= sessionCodeStore[k].expires_at /\ Len(k) = 64
          => RetrieveStatus(sessionCodeStore,
               Request("retrieve", "POST", TRUE, Undefined, Undefined,
                       Undefined, Undefined, Undefined, Str(k)), now) = 200)

\* at the last instant of an entry's validity a put of another code ran its
\* sweep and the entry is still stored
StoreFrameWitness ==
  \E k \in DOMAIN sessionCodeStore :
    /\ now = sessionCodeStore[k].expires_at
    /\ \E c \in Clients :
         /\ pc[c] = "answered" /\ IsPut(req[c]) /\ resp[c].status = 200
         /\ resp[c].session_code # Str(k)
         /\ resp[c].expires_at = now + 300000

\* ------------------------------------------------------------------
\* The success page of verified.js
\* ------------------------------------------------------------------

\* the queries getEmailWithRetry has issued for this request
QueriesIssued ==
  Cardinality({i \in 1..Len(trail) : trail[i].kind = "query"})
  + (IF retry.pc = "query" THEN 1 ELSE 0)

\* the query found nothing: no rows, null, or an error
FoundNothing(event) ==
  event.kind = "query" /\ event.rows = 0 /\ event.result # "throws"

AlwaysServed ==
  /\ [](retry.pc # "done" => sent = <<>>)
  /\ [](retry.pc = "done"
        => /\ Len(sent) = 1
           /\ sent[1].status = 200
           /\ sent[1].contentType = "text/html; charset=utf-8"
           /\ sent[1].page \in {"success", "fallback"}
           /\ sent[1].page = "fallback"
              <=> /\ trail[Len(trail)].result = "throws"
                  /\ trail[Len(trail)].attempt = 6)
  /\ [][/\ retry.pc = "query"
         /\ Len(trail') = Len(trail) + 1
         /\ trail'[Len(trail')].result = "throws"
         /\ retry.attempt < 6
         => /\ retry'.pc = "query"
            /\ retry'.attempt = retry.attempt + 1
            /\ sent' = <<>>]_vars

\* a query threw on the third attempt, the fourth was made, and the sixth
\* threw: the fallback page was sent with status 200
AlwaysServedWitness ==
  /\ retry.pc = "done"
  /\ \E i \in 1..Len(trail) :
       /\ trail[i].result = "throws" /\ trail[i].attempt = 3
       /\ trail[i + 1].kind = "query" /\ trail[i + 1].attempt = 4
  /\ trail[Len(trail)].result = "throws"
  /\ sent = << generateFallbackPage >>

====
